---- MODULE Spec2Model ----
(***************************************************************************)
(* SME-LENS document intelligence engine.                                  *)
(*                                                                         *)
(* Part 1: consensus voting of the four detectors of a critical field     *)
(*         (backend/app/services/consensus_engine.py).                     *)
(* Part 2: the Learning Memory and the orchestrator's use of it           *)
(*         (backend/app/services/learning_memory.py,                       *)
(*          backend/app/services/enterprise_intelligence.py).              *)
(* Part 3: the Learning Memory called directly.                            *)
(* Part 4: process_image run twice on one input.                           *)
(* Part 5: process_image step by step.                                     *)
(* Part 6: the Learning Memory called by several threads at once.          *)
(* Part 7: the date normaliser, the document classifier and the            *)
(* confirmation planner, each applied to inputs of its own.                *)
(***************************************************************************)
EXTENDS Integers, Sequences, FiniteSets, TLC

VARIABLES
    field_name,        \* field the running extract_* call is about, or "idle"
    next_detector,     \* index (1..4) of the detector that runs next; 5 = all ran
    detector_results,  \* list[DetectorResult] collected so far
    consensus,         \* ConsensusResult returned by the last extract_* call
    file,              \* the storage file of the Learning Memory
    loaded,            \* _global_memory is not None
    entries,           \* LearningMemory.entries (dict, in insertion order)
    vendor_index,      \* LearningMemory.vendor_index
    last_result,       \* EnterpriseExtractionResult the last call returned
    pruned,            \* the N of "Pruned N old entries" logged by the last call
    calls,             \* number of calls made on the engine and the memory so far
    last_call,         \* the last call made on the LearningMemory itself (Part 3)
    first_run,         \* the first of two runs on one input, and the second (Part 4)
    run,               \* the process_image call in flight: position and locals (Part 5)
    heap,              \* the LearningMemoryEntry objects, by identity (Part 6)
    refs,              \* self.entries as the objects it refers to (Part 6)
    threads,           \* the calls in flight on the memory, one per thread (Part 6)
    at_start,          \* the memory as the concurrent calls found it (Part 6)
    applied            \* the function last applied, its arguments and value (Part 7)

consensus_vars == <<field_name, next_detector, detector_results, consensus>>

\* what Part 6 adds to the state
concurrent_vars == <<heap, refs, threads, at_start>>

\* what Parts 3 to 7 add to the state
later_vars == <<last_call, first_run, run, concurrent_vars, applied>>

\* what a call on the engine leaves alone
other_vars == <<consensus_vars, later_vars>>

memory_vars == <<file, loaded, entries, vendor_index, last_result,
                 pruned, calls>>

vars == <<field_name, next_detector, detector_results, consensus,
          file, loaded, entries, vendor_index, last_result,
          pruned, calls, last_call, first_run, run, heap, refs, threads, at_start,
          applied>>

(***************************************************************************)
(* Values.  Python's None, float and str are kept apart by a tag, because  *)
(* _normalize_for_comparison dispatches on the type of the value.          *)
(* A float is held in thousandths (1004 is 1.004); a str is a sequence of  *)
(* one-character strings.                                                  *)
(***************************************************************************)
None == [kind |-> "none"]

Float(n) == [kind |-> "float", v |-> n]

Str(s) == [kind |-> "str", v |-> s]

\* Amounts a detector can return (thousandths).  No value ends in 5, so that
\* rounding to 2 places never meets a tie and round() is the nearest cent.
AmountValues == {1000, 1004, 1006, 1010}

\* Vendor lines a detector can return: the same name in two casings, with
\* surrounding blanks, and a different name.
VendorValues == {<<"A">>, <<"a">>, <<" ", "a">>, <<"a", " ">>, <<"b">>}

\* Dates are already canonical (YYYY-MM-DD): digits only, two different dates.
DateValues == {<<"1">>, <<"2">>}

\* extract_total_amount / extract_date / extract_vendor run their detectors
\* in this order, and each one names itself in its DetectorResult.
DetectorNames == <<"regex", "proximity", "position", "statistical">>

FieldNames == {"total_amount", "date", "vendor"}

ValuesOf(f) ==
    IF f = "total_amount" THEN {Float(n) : n \in AmountValues}
    ELSE IF f = "date" THEN {Str(s) : s \in DateValues}
    ELSE IF f = "vendor" THEN {Str(s) : s \in VendorValues}
    ELSE {}

STRONG_CONSENSUS_THRESHOLD == 3

MODERATE_CONSENSUS_THRESHOLD == 2

(***************************************************************************)
(* str.strip() and str.lower()                                             *)
(***************************************************************************)
LowerChar(c) == IF c = "A" THEN "a" ELSE c

Lower(s) == [i \in 1..Len(s) |-> LowerChar(s[i])]

RECURSIVE LStrip(_)
LStrip(s) == IF s # <<>> /\ Head(s) = " " THEN LStrip(Tail(s)) ELSE s

RECURSIVE RStrip(_)
RStrip(s) ==
    IF s # <<>> /\ s[Len(s)] = " " THEN RStrip(SubSeq(s, 1, Len(s) - 1)) ELSE s

Strip(s) == RStrip(LStrip(s))

\* round(value, 2) on a float held in thousandths
Round2(n) == ((n + 5) \div 10) * 10

\* normalization that trims but keeps the case of strings
normalize_keep_case(value) ==
    IF value.kind = "none" THEN None
    ELSE IF value.kind = "float" THEN Float(Round2(value.v))
    ELSE IF value.kind = "str" THEN Str(Strip(value.v))
    ELSE value

normalize_for_comparison(value) ==
    IF value.kind = "none" THEN None
    ELSE IF value.kind = "float" THEN Float(Round2(value.v))
    ELSE IF value.kind = "str" THEN Str(Lower(Strip(value.v)))
    ELSE value

(***************************************************************************)
(* _build_consensus                                                        *)
(***************************************************************************)
\* vote_counts is a dict (insertion ordered): a list of (value, detectors)
VoteIndex(vote_counts, value) ==
    {i \in 1..Len(vote_counts) : vote_counts[i].value = value}

AddVote(vote_counts, value, name) ==
    IF VoteIndex(vote_counts, value) = {}
    THEN Append(vote_counts, [value |-> value, detectors |-> <<name>>])
    ELSE [i \in 1..Len(vote_counts) |->
            IF vote_counts[i].value = value
            THEN [vote_counts[i] EXCEPT !.detectors = Append(@, name)]
            ELSE vote_counts[i]]

RECURSIVE CountVotes(_, _)
CountVotes(results, vote_counts) ==
    IF results = <<>> THEN vote_counts
    ELSE CountVotes(Tail(results),
                    AddVote(vote_counts,
                            normalize_for_comparison(Head(results).value),
                            Head(results).detector_name))

\* list.sort(key=votes, reverse=True): stable, equal keys keep their order
RECURSIVE InsertByVotesDesc(_, _)
InsertByVotesDesc(sorted, c) ==
    IF sorted = <<>> THEN <<c>>
    ELSE IF Head(sorted)[2] >= c[2]
         THEN <<Head(sorted)>> \o InsertByVotesDesc(Tail(sorted), c)
         ELSE <<c>> \o sorted

\* the sort without reverse=True: fewest votes first
RECURSIVE InsertByVotesAsc(_, _)
InsertByVotesAsc(sorted, c) ==
    IF sorted = <<>> THEN <<c>>
    ELSE IF Head(sorted)[2] <= c[2]
         THEN <<Head(sorted)>> \o InsertByVotesAsc(Tail(sorted), c)
         ELSE <<c>> \o sorted

RECURSIVE SortByVotesAsc(_, _)
SortByVotesAsc(cands, sorted) ==
    IF cands = <<>> THEN sorted
    ELSE SortByVotesAsc(Tail(cands), InsertByVotesAsc(sorted, Head(cands)))

RECURSIVE SortByVotesDesc(_, _)
SortByVotesDesc(cands, sorted) ==
    IF cands = <<>> THEN sorted
    ELSE SortByVotesDesc(Tail(cands), InsertByVotesDesc(sorted, Head(cands)))

SeqToSet(s) == {s[i] : i \in 1..Len(s)}

RECURSIVE Filter(_, _)
Filter(s, keep) ==
    IF s = <<>> THEN <<>>
    ELSE IF Head(s) \in keep THEN <<Head(s)>> \o Filter(Tail(s), keep)
         ELSE Filter(Tail(s), keep)

\* Level with the thresholds compared by > instead of >=
LevelStrict(best_count, n_candidates) ==
    IF best_count > STRONG_CONSENSUS_THRESHOLD
    THEN [level |-> "strong", needs_confirmation |-> FALSE, reason |-> "none"]
    ELSE IF best_count > MODERATE_CONSENSUS_THRESHOLD
    THEN [level |-> "moderate", needs_confirmation |-> FALSE, reason |-> "none"]
    ELSE [level |-> "weak", needs_confirmation |-> TRUE,
          reason |-> IF n_candidates > 1 THEN "conflicting" ELSE "only"]

\* lines 811-827: level, needs_confirmation and reason from the best count
Level(best_count, n_candidates) ==
    IF best_count >= STRONG_CONSENSUS_THRESHOLD
    THEN [level |-> "strong", needs_confirmation |-> FALSE, reason |-> "none"]
    ELSE IF best_count >= MODERATE_CONSENSUS_THRESHOLD
    THEN [level |-> "moderate", needs_confirmation |-> FALSE, reason |-> "none"]
    ELSE [level |-> "weak", needs_confirmation |-> TRUE,
          reason |-> IF n_candidates > 1 THEN "conflicting" ELSE "only"]

\* lines 829-834: the original value of the first result that normalizes to best
FirstOriginal(results, best_value) ==
    LET hits == {i \in 1..Len(results) :
                    normalize_for_comparison(results[i].value) = best_value}
    IN  IF hits = {} THEN None
        ELSE results[CHOOSE i \in hits : \A j \in hits : i <= j].value

NoConsensus(f, results, reason) ==
    [field_name |-> f, final_value |-> None, consensus_level |-> "none",
     agreement_count |-> 0, total_detectors |-> Len(results),
     detector_results |-> results, agreeing_detectors |-> <<>>,
     dissenting_detectors |-> [i \in 1..Len(results) |-> results[i].detector_name],
     all_candidates |-> <<>>, needs_confirmation |-> TRUE,
     confirmation_reason |-> reason]

build_consensus(f, results) ==
    IF results = <<>> THEN NoConsensus(f, <<>>, "no_candidates")
    ELSE
    LET vote_counts == CountVotes(results, <<>>)
        unsorted == [i \in 1..Len(vote_counts) |->
                        <<vote_counts[i].value, Len(vote_counts[i].detectors)>>]
        all_candidates == SortByVotesDesc(unsorted, <<>>)
    IN  IF all_candidates = <<>> THEN NoConsensus(f, results, "unparsed")
        ELSE
        LET best_value == all_candidates[1][1]
            best_count == all_candidates[1][2]
            agreeing == vote_counts[CHOOSE i \in VoteIndex(vote_counts, best_value) : TRUE].detectors
            names == [i \in 1..Len(results) |-> results[i].detector_name]
            dissenting == Filter(names, SeqToSet(names) \ SeqToSet(agreeing))
            lv == Level(best_count, Len(all_candidates))
        IN  [field_name |-> f,
             final_value |-> FirstOriginal(results, best_value),
             consensus_level |-> lv.level,
             agreement_count |-> best_count,
             total_detectors |-> Len(results),
             detector_results |-> results,
             agreeing_detectors |-> agreeing,
             dissenting_detectors |-> dissenting,
             all_candidates |-> all_candidates,
             needs_confirmation |-> lv.needs_confirmation,
             confirmation_reason |-> lv.reason]

(***************************************************************************)
(* extract_total_amount, extract_date, extract_vendor                      *)
(***************************************************************************)
NotBuilt == [field_name |-> "none"]

\* no call has been made on the LearningMemory itself
NoCall == [op |-> "none"]

\* no run has been made of a repeated input
NoRun == [phase |-> "none"]

\* no process_image call is in flight
NoProcess == [pc |-> "idle"]

\* no call is in flight on the memory
NoThreads == <<>>

\* no function of Part 7 has been applied
NotApplied == [op |-> "none"]

\* the last call returned no EnterpriseExtractionResult
NoResult == [success |-> FALSE]

InitConsensus ==
    /\ field_name = "idle"
    /\ next_detector = 1
    /\ detector_results = <<>>
    /\ consensus = NotBuilt
    /\ file = [state |-> "absent", entries |-> <<>>]
    /\ loaded = FALSE
    /\ entries = <<>>
    /\ vendor_index = <<>>
    /\ last_result = NoResult
    /\ pruned = 0
    /\ calls = 0
    /\ last_call = NoCall
    /\ first_run = NoRun
    /\ run = NoProcess
    /\ heap = <<>>
    /\ refs = <<>>
    /\ threads = NoThreads
    /\ at_start = NoThreads
    /\ applied = NotApplied

\* entry of extract_<field>: detector_results = []
StartExtract(f) ==
    /\ field_name = "idle"
    /\ field_name' = f
    /\ next_detector' = 1
    /\ detector_results' = <<>>
    /\ consensus' = NotBuilt
    /\ UNCHANGED <<memory_vars, later_vars>>

\* a detector returned a DetectorResult: it is appended
DetectorReturns(value) ==
    /\ field_name \in FieldNames
    /\ next_detector <= 4
    /\ value \in ValuesOf(field_name)
    /\ detector_results' = Append(detector_results,
            [detector_name |-> DetectorNames[next_detector], value |-> value])
    /\ next_detector' = next_detector + 1
    /\ UNCHANGED <<field_name, consensus>>
    /\ UNCHANGED <<memory_vars, later_vars>>

\* a detector returned None: nothing is appended
DetectorReturnsNone ==
    /\ field_name \in FieldNames
    /\ next_detector <= 4
    /\ next_detector' = next_detector + 1
    /\ UNCHANGED <<field_name, detector_results, consensus>>
    /\ UNCHANGED <<memory_vars, later_vars>>

\* a detector raised: extract_<field> has no handler, the exception leaves
\* the call and no ConsensusResult is returned
DetectorRaises ==
    /\ field_name \in FieldNames
    /\ next_detector <= 4
    /\ field_name' = "idle"
    /\ consensus' = NotBuilt
    /\ UNCHANGED <<next_detector, detector_results>>
    /\ UNCHANGED <<memory_vars, later_vars>>

\* return self._build_consensus(field, detector_results)
BuildConsensus ==
    /\ field_name \in FieldNames
    /\ next_detector = 5
    /\ consensus' = build_consensus(field_name, detector_results)
    /\ field_name' = "idle"
    /\ UNCHANGED <<next_detector, detector_results>>
    /\ UNCHANGED <<memory_vars, later_vars>>

NextConsensus ==
    \/ \E f \in FieldNames : StartExtract(f)
    \/ \E value \in ValuesOf(field_name) : DetectorReturns(value)
    \/ DetectorReturnsNone
    \/ DetectorRaises
    \/ BuildConsensus

SpecConsensus == InitConsensus /\ [][NextConsensus]_vars

(***************************************************************************)
(* Properties of the consensus result                                      *)
(***************************************************************************)
Built == consensus # NotBuilt

\* The normal form the comparison of detector values is stated in: floats
\* rounded to 2 places, strings trimmed and lowercased.
Normalized(value) ==
    IF value.kind = "float" THEN Float(((value.v + 5) \div 10) * 10)
    ELSE IF value.kind = "str"
    THEN LET s == value.v
             blank(i) == s[i] = " "
             keep == {i \in 1..Len(s) : (\E j \in 1..i : ~blank(j))
                                        /\ (\E j \in i..Len(s) : ~blank(j))}
             first == CHOOSE i \in keep : \A j \in keep : i <= j
         IN  IF keep = {} THEN Str(<<>>)
             ELSE Str([i \in 1..Cardinality(keep) |->
                        IF s[first + i - 1] = "A" THEN "a" ELSE s[first + i - 1]])
    ELSE value

\* C1: the consensus level and needs_confirmation of every ConsensusResult
\* are fixed by agreement_count: STRONG iff >= 3, MODERATE iff = 2, WEAK iff
\* = 1, NONE iff no detector returned a value; needs_confirmation iff the
\* level is WEAK or NONE.
C1_LevelByAgreement ==
    Built =>
        /\ consensus.consensus_level = "strong" <=> consensus.agreement_count >= 3
        /\ consensus.consensus_level = "moderate" <=> consensus.agreement_count = 2
        /\ consensus.consensus_level = "weak" <=> consensus.agreement_count = 1
        /\ consensus.consensus_level = "none" <=> consensus.detector_results = <<>>
        /\ consensus.needs_confirmation
              <=> consensus.consensus_level \in {"weak", "none"}

\* three of four detectors agree on a value, the fourth dissents
C1_Witness ==
    /\ Built
    /\ consensus.total_detectors = 4
    /\ consensus.agreement_count = 3
    /\ consensus.consensus_level = "strong"
    /\ ~consensus.needs_confirmation

\* C2: agreement_count is the number of detector results whose normalized
\* value equals the normalized final_value, and is at most total_detectors.
C2_AgreementCount ==
    Built =>
        /\ consensus.agreement_count =
              Cardinality({i \in 1..Len(consensus.detector_results) :
                  consensus.final_value # None
                  /\ Normalized(consensus.detector_results[i].value)
                        = Normalized(consensus.final_value)})
        /\ consensus.agreement_count <= consensus.total_detectors

\* two detectors agree only after normalization (their raw values differ)
C2_Witness ==
    /\ Built
    /\ consensus.agreement_count = 2
    /\ \E i, j \in 1..Len(consensus.detector_results) :
          /\ consensus.detector_results[i].value
                # consensus.detector_results[j].value
          /\ Normalized(consensus.detector_results[i].value)
                = Normalized(consensus.final_value)
          /\ Normalized(consensus.detector_results[j].value)
                = Normalized(consensus.final_value)

\* C3: all_candidates is sorted by votes, descending, and when final_value
\* is not null its head is (normalized final_value, agreement_count).
C3_CandidatesSorted ==
    Built =>
        /\ \A i \in 1..(Len(consensus.all_candidates) - 1) :
              consensus.all_candidates[i][2] >= consensus.all_candidates[i + 1][2]
        /\ consensus.final_value # None =>
              /\ consensus.all_candidates # <<>>
              /\ consensus.all_candidates[1]
                    = <<Normalized(consensus.final_value), consensus.agreement_count>>

\* the value most voted for was not the first one a detector returned
C3_Witness ==
    /\ Built
    /\ Len(consensus.all_candidates) = 2
    /\ consensus.all_candidates[1][2] > consensus.all_candidates[2][2]
    /\ Normalized(consensus.detector_results[1].value)
          = consensus.all_candidates[2][1]
    /\ consensus.final_value # consensus.all_candidates[1][1]

(***************************************************************************)
(* Part 2.  Learning Memory (learning_memory.py)                           *)
(***************************************************************************)
\* Cap on the number of entries.  The program's value is 1000; the model
\* runs with a small cap so that reaching it is within the explored states.
MAX_ENTRIES == 2

\* similarity scores and boosts are held in hundredths
MATCH_THRESHOLD == 60

KNOWN_PATTERN_BOOST == 15

CONFIRMED_PATTERN_BOOST == 25

\* calls made on the engine and the memory in one run of the model
MaxCalls == 2

(***************************************************************************)
(* Documents.  A document is its cleaned text, seen through what            *)
(* create_fingerprint reads of it (number of lines, keywords of the top     *)
(* 15% and bottom 20% of the lines, number of words), and what the          *)
(* pipeline extracts from that text: _classify_document's type, the         *)
(* consensus vendor and total, _detect_currency's code.                     *)
(*   D1  "ACME LTD / Date: 02/02/2025 / Item A 100.00 / Item B 50.00 /      *)
(*        TOTAL KES 150.00"                                                 *)
(*   D2  "Receipt 12 / Date: 02/02/2025 / 12.00"  (no vendor line)          *)
(*   D3  "ZED SHOP / Invoice 7 / Date: 03/03/2025 / 8 items / TOTAL USD 9"  *)
(* A document also carries what the OCR passes return of its image         *)
(* (primary_text as its characters, best_confidence in percent, the number  *)
(* of low-confidence words) and the to_dict() of its consensus results, as  *)
(* far as the scorer reads them.                                            *)
(* Vendor names are strings over the characters of Part 1: <<"A">> and      *)
(* <<"a">> are one name in two casings.                                     *)
(***************************************************************************)
D1 ==
    [text |-> [line_count |-> 5, header_keywords |-> <<"acme", "item">>,
               footer_keywords |-> <<"total">>, word_count |-> 13],
     document_type |-> "receipt", vendor |-> Str(<<"A">>),
     total_amount |-> Float(1000), currency |-> "KES",
     primary_text |-> <<" ", "d", "1", "\n">>, best_confidence |-> 90,
     low_confidence_words |-> 0,
     consensus |-> <<[field_name |-> "total_amount", needs_confirmation |-> FALSE],
                     [field_name |-> "date", needs_confirmation |-> FALSE],
                     [field_name |-> "vendor", needs_confirmation |-> FALSE]>>]

D2 ==
    [text |-> [line_count |-> 3, header_keywords |-> <<"receipt">>,
               footer_keywords |-> <<>>, word_count |-> 5],
     document_type |-> "receipt", vendor |-> None,
     total_amount |-> Float(1004), currency |-> "KES",
     primary_text |-> <<"d", "2">>, best_confidence |-> 70,
     low_confidence_words |-> 6,
     consensus |-> <<[field_name |-> "total_amount", needs_confirmation |-> FALSE],
                     [field_name |-> "date", needs_confirmation |-> FALSE],
                     [field_name |-> "vendor", needs_confirmation |-> TRUE]>>]

D3 ==
    [text |-> [line_count |-> 12, header_keywords |-> <<"shop", "invoice">>,
               footer_keywords |-> <<"item", "total">>, word_count |-> 33],
     document_type |-> "invoice", vendor |-> Str(<<"b">>),
     total_amount |-> Float(1006), currency |-> "USD",
     primary_text |-> <<"d", "3">>, best_confidence |-> 80,
     low_confidence_words |-> 0,
     consensus |-> <<[field_name |-> "total_amount", needs_confirmation |-> FALSE],
                     [field_name |-> "date", needs_confirmation |-> FALSE],
                     [field_name |-> "vendor", needs_confirmation |-> FALSE]>>]

\* documents processed in the model; D3 is known from the storage file only
Documents == {D1, D2}

DocumentHints == {"receipt", "unknown"}

\* bool(vendor_name): None and '' are false
Truthy(value) == value # None /\ value.v # <<>>

\* str(value), as far as record_correction compares it: the renderings of
\* two different values of the model are different strings
PyStr(value) == [kind |-> "str", of |-> value]

Min(a, b) == IF a < b THEN a ELSE b

Max(a, b) == IF a > b THEN a ELSE b

(***************************************************************************)
(* DocumentFingerprint                                                      *)
(***************************************************************************)
\* hashlib.md5(content).hexdigest()[:16] of the components joined by '|'.
\* The digest is held as the components themselves (two fingerprints have
\* one hash iff their components are equal); sorted(header_keywords[:5]) is
\* the set of the first five keywords.
compute_hash(line_count, header_keywords, document_type, vendor_name) ==
    <<(line_count \div 5) * 5,
      SeqToSet(SubSeq(header_keywords, 1, Min(5, Len(header_keywords)))),
      document_type,
      IF Truthy(vendor_name) THEN vendor_name.v ELSE <<>>>>

\* LearningMemory.create_fingerprint, on the features of the text
create_fingerprint(text, document_type, vendor_name, currency) ==
    [line_count |-> text.line_count,
     header_keywords |-> text.header_keywords,
     footer_keywords |-> text.footer_keywords,
     has_table |-> FALSE,
     approximate_word_count |-> text.word_count,
     document_type |-> document_type,
     vendor_name |-> vendor_name,
     currency |-> currency,
     fingerprint_hash |-> compute_hash(text.line_count, text.header_keywords,
                                       document_type, vendor_name)]

\* DocumentFingerprint.similarity_score, in hundredths
similarity_score(self, other) ==
    IF self.fingerprint_hash = other.fingerprint_hash THEN 100
    ELSE Min(100,
          (IF self.document_type = other.document_type THEN 30 ELSE 0)
        + (IF Truthy(self.vendor_name) /\ Truthy(other.vendor_name)
              /\ Lower(self.vendor_name.v) = Lower(other.vendor_name.v)
           THEN 40 ELSE 0)
        + (IF self.line_count > 0 /\ other.line_count > 0
              /\ 10 * Min(self.line_count, other.line_count)
                   > 8 * Max(self.line_count, other.line_count)
           THEN 10 ELSE 0)
        + 5 * Cardinality(SeqToSet(self.header_keywords)
                            \cap SeqToSet(other.header_keywords))
        + (IF self.currency = other.currency THEN 5 ELSE 0))

(***************************************************************************)
(* LearningMemory.  The operations work on a record                        *)
(*   [entries, vendor_index, file, pruned]                                   *)
(* of the memory's two dicts, the storage file and the number of failed     *)
(* writes.  An entry's dict key is its fingerprint_hash.                    *)
(***************************************************************************)
KeyOf(entry) == entry.fingerprint.fingerprint_hash

EntryIndex(ents, hash_key) == {i \in 1..Len(ents) : KeyOf(ents[i]) = hash_key}

HasEntry(ents, hash_key) == EntryIndex(ents, hash_key) # {}

GetEntry(ents, hash_key) == ents[CHOOSE i \in EntryIndex(ents, hash_key) : TRUE]

Keys(ents) == {KeyOf(ents[i]) : i \in 1..Len(ents)}

\* vendor_index[vendor_lower].append(hash_key), creating the list if needed
\* and (in learn_from_document) skipping a hash already listed
IndexAdd(index, vendor_lower, hash_key, skip_listed) ==
    [v \in DOMAIN index \cup {vendor_lower} |->
        IF v # vendor_lower THEN index[v]
        ELSE IF v \notin DOMAIN index THEN <<hash_key>>
        ELSE IF skip_listed /\ hash_key \in SeqToSet(index[v]) THEN index[v]
        ELSE Append(index[v], hash_key)]

\* dict.get(key, default)
Get(dict, key, default) == IF key \in DOMAIN dict THEN dict[key] ELSE default

\* json.dump of a value that may be None, a float or a str: null, a number
\* or a string
json_dump(value) ==
    IF value = None THEN [json |-> "null"]
    ELSE IF value.kind = "float" THEN [json |-> "number", v |-> value.v]
    ELSE [json |-> "string", v |-> value.v]

\* json.load of null, a number or a string
json_load(j) ==
    IF j.json = "null" THEN None
    ELSE IF j.json = "number" THEN Float(j.v)
    ELSE Str(j.v)

\* LearningMemoryEntry.to_dict as json.dump writes it: asdict of the
\* fingerprint and of every correction and rule, the two counters (the
\* timestamps, which no operation reads, are left out of the model)
to_dict(entry) ==
    [fingerprint |-> [entry.fingerprint EXCEPT !.vendor_name = json_dump(@)],
     field_positions |-> entry.field_positions,
     corrections |->
        [k \in 1..Len(entry.corrections) |->
            [entry.corrections[k] EXCEPT
                !.original_value = json_dump(@),
                !.corrected_value = json_dump(@),
                !.vendor_name = json_dump(@)]],
     vendor_rules |-> entry.vendor_rules,
     times_seen |-> entry.times_seen,
     times_confirmed |-> entry.times_confirmed]

\* DocumentFingerprint(**data): __post_init__ computes the hash only when
\* the data has none
DocumentFingerprint(data) ==
    LET vendor_name == json_load(data.vendor_name)
    IN  [data EXCEPT
            !.vendor_name = vendor_name,
            !.fingerprint_hash =
                IF @ = <<>>
                THEN compute_hash(data.line_count, data.header_keywords,
                                  data.document_type, vendor_name)
                ELSE @]

\* a from_dict that does not read the counters
from_dict_new_counters(data) ==
    [fingerprint |-> DocumentFingerprint(data.fingerprint),
     field_positions |-> Get(data, "field_positions", <<>>),
     corrections |->
        LET corrections == Get(data, "corrections", <<>>)
        IN  [k \in 1..Len(corrections) |->
                [corrections[k] EXCEPT
                    !.original_value = json_load(@),
                    !.corrected_value = json_load(@),
                    !.vendor_name = json_load(@)]],
     vendor_rules |-> Get(data, "vendor_rules", <<>>),
     times_seen |-> 1,
     times_confirmed |-> 0]

\* LearningMemoryEntry.from_dict of an entry json.load has read; called on
\* data that has a 'fingerprint'
from_dict(data) ==
    [fingerprint |-> DocumentFingerprint(data.fingerprint),
     field_positions |-> Get(data, "field_positions", <<>>),
     corrections |->
        LET corrections == Get(data, "corrections", <<>>)
        IN  [k \in 1..Len(corrections) |->
                [corrections[k] EXCEPT
                    !.original_value = json_load(@),
                    !.corrected_value = json_load(@),
                    !.vendor_name = json_load(@)]],
     vendor_rules |-> Get(data, "vendor_rules", <<>>),
     times_seen |-> Get(data, "times_seen", 1),
     times_confirmed |-> Get(data, "times_confirmed", 0)]

\* the file as written by json.dump of every entry's to_dict
SavedFile(ents) ==
    [state |-> "ok", entries |-> [i \in 1..Len(ents) |-> to_dict(ents[i])]]

\* open(path, 'w') has truncated the file and the dump did not complete
CorruptFile == [state |-> "corrupt", entries |-> <<>>]

\* outcome of _save: "ok", "unchanged" (the directory or the file could
\* not be opened) or "partial" (the write failed after the file was opened);
\* the storage is in one condition for the length of a call
SaveOutcomes == {"ok", "unchanged", "partial"}

\* LearningMemory._save: an exception is logged and swallowed
save(m, outcome) ==
    IF outcome = "ok" THEN [m EXCEPT !.file = SavedFile(m.entries)]
    ELSE IF outcome = "partial"
    THEN [m EXCEPT !.file = CorruptFile]
    ELSE m

\* LearningMemory._load, run by __init__ on empty dicts: a missing file or
\* one that cannot be parsed leaves both dicts empty; the vendor index is
\* built in the order of the file
RECURSIVE BuildIndex(_, _)
BuildIndex(ents, index) ==
    IF ents = <<>> THEN index
    ELSE BuildIndex(Tail(ents),
            IF Truthy(Head(ents).fingerprint.vendor_name)
            THEN IndexAdd(index, Lower(Head(ents).fingerprint.vendor_name.v),
                          KeyOf(Head(ents)), FALSE)
            ELSE index)

\* index of the first entry of the file from_dict raises KeyError on (it
\* has no 'fingerprint'), or one past the last entry
FirstBad(f) ==
    LET bad == {i \in 1..Len(f.entries) : "fingerprint" \notin DOMAIN f.entries[i]}
    IN  IF bad = {} THEN Len(f.entries) + 1
        ELSE CHOOSE i \in bad : \A j \in bad : i <= j

\* a load whose exception handler does not reset the dicts: the entries
\* read before the exception stay
load_keeps_loaded(f) ==
    IF f.state # "ok" THEN [entries |-> <<>>, vendor_index |-> <<>>]
    ELSE LET ents == [i \in 1..(FirstBad(f) - 1) |-> from_dict(f.entries[i])]
         IN  [entries |-> ents, vendor_index |-> BuildIndex(ents, <<>>)]

load(f) ==
    IF f.state # "ok" \/ FirstBad(f) <= Len(f.entries)
    THEN [entries |-> <<>>, vendor_index |-> <<>>]
    ELSE LET ents == [i \in 1..Len(f.entries) |-> from_dict(f.entries[i])]
         IN  [entries |-> ents, vendor_index |-> BuildIndex(ents, <<>>)]

Utility(entry) == entry.times_seen + entry.times_confirmed * 2

\* sorted(items, key=utility, reverse=True): stable
RECURSIVE InsertByUtilityDesc(_, _)
InsertByUtilityDesc(sorted, e) ==
    IF sorted = <<>> THEN <<e>>
    ELSE IF Utility(Head(sorted)) >= Utility(e)
         THEN <<Head(sorted)>> \o InsertByUtilityDesc(Tail(sorted), e)
         ELSE <<e>> \o sorted

RECURSIVE SortByUtilityDesc(_, _)
SortByUtilityDesc(ents, sorted) ==
    IF ents = <<>> THEN sorted
    ELSE SortByUtilityDesc(Tail(ents), InsertByUtilityDesc(sorted, Head(ents)))

\* pruning that keeps the first MAX_ENTRIES entries in insertion order
prune_oldest_kept(m) ==
    IF Len(m.entries) <= MAX_ENTRIES THEN m
    ELSE LET keep == SubSeq(m.entries, 1, MAX_ENTRIES)
         IN  [m EXCEPT !.entries = keep,
                       !.vendor_index =
                           [v \in DOMAIN m.vendor_index |->
                               Filter(m.vendor_index[v], Keys(keep))],
                       !.pruned = Len(m.entries) - MAX_ENTRIES]

\* LearningMemory._prune_old_entries
prune_old_entries(m) ==
    IF Len(m.entries) <= MAX_ENTRIES THEN m
    ELSE LET sorted_entries == SortByUtilityDesc(m.entries, <<>>)
             keep == SubSeq(sorted_entries, 1, MAX_ENTRIES)
             removed == Keys(m.entries) \ Keys(keep)
         IN  [m EXCEPT !.entries = keep,
                       !.vendor_index =
                           [v \in DOMAIN m.vendor_index |->
                               Filter(m.vendor_index[v],
                                      SeqToSet(m.vendor_index[v]) \ removed)],
                       !.pruned = Cardinality(removed)]

\* a learn_from_document that leaves the vendor index as it is
learn_from_document_unindexed(m, fingerprint, user_confirmed, outcome) ==
    LET hash_key == fingerprint.fingerprint_hash
        updated ==
            IF HasEntry(m.entries, hash_key)
            THEN [m EXCEPT !.entries =
                    [i \in 1..Len(m.entries) |->
                        IF KeyOf(m.entries[i]) = hash_key
                        THEN [m.entries[i] EXCEPT
                                !.times_seen = @ + 1,
                                !.times_confirmed =
                                    IF user_confirmed THEN @ + 1 ELSE @]
                        ELSE m.entries[i]]]
            ELSE [m EXCEPT
                    !.entries = Append(m.entries,
                        [fingerprint |-> fingerprint,
                         field_positions |-> <<>>,
                         corrections |-> <<>>,
                         vendor_rules |-> <<>>,
                         times_seen |-> 1,
                         times_confirmed |-> IF user_confirmed THEN 1 ELSE 0])]
        capped == IF Len(updated.entries) > MAX_ENTRIES
                  THEN prune_old_entries(updated) ELSE updated
    IN  save(capped, outcome)

\* LearningMemory.learn_from_document (the engine passes no field_positions)
learn_from_document(m, fingerprint, user_confirmed, outcome) ==
    LET hash_key == fingerprint.fingerprint_hash
        updated ==
            IF HasEntry(m.entries, hash_key)
            THEN [m EXCEPT !.entries =
                    [i \in 1..Len(m.entries) |->
                        IF KeyOf(m.entries[i]) = hash_key
                        THEN [m.entries[i] EXCEPT
                                !.times_seen = @ + 1,
                                !.times_confirmed =
                                    IF user_confirmed THEN @ + 1 ELSE @]
                        ELSE m.entries[i]]]
            ELSE [m EXCEPT
                    !.entries = Append(m.entries,
                        [fingerprint |-> fingerprint,
                         field_positions |-> <<>>,
                         corrections |-> <<>>,
                         vendor_rules |-> <<>>,
                         times_seen |-> 1,
                         times_confirmed |-> IF user_confirmed THEN 1 ELSE 0]),
                    !.vendor_index =
                        IF Truthy(fingerprint.vendor_name)
                        THEN IndexAdd(m.vendor_index,
                                      Lower(fingerprint.vendor_name.v),
                                      hash_key, TRUE)
                        ELSE m.vendor_index]
        capped == IF Len(updated.entries) > MAX_ENTRIES
                  THEN prune_old_entries(updated) ELSE updated
    IN  save(capped, outcome)

\* a record_correction that does not write the file
record_correction_unsaved(m, fingerprint, fname, original_value, corrected_value, outcome) ==
    LET hash_key == fingerprint.fingerprint_hash IN
    IF ~HasEntry(m.entries, hash_key) THEN m
    ELSE
    LET entry == GetEntry(m.entries, hash_key)
        same == {k \in 1..Len(entry.corrections) :
                    /\ entry.corrections[k].field_name = fname
                    /\ PyStr(entry.corrections[k].original_value)
                         = PyStr(original_value)}
        existing == CHOOSE k \in same : \A j \in same : k <= j
        corrections ==
            IF same # {}
            THEN [entry.corrections EXCEPT
                    ![existing].corrected_value = corrected_value,
                    ![existing].correction_count = @ + 1]
            ELSE Append(entry.corrections,
                    [field_name |-> fname,
                     original_value |-> original_value,
                     corrected_value |-> corrected_value,
                     document_type |-> fingerprint.document_type,
                     vendor_name |-> fingerprint.vendor_name,
                     correction_count |-> 1])
    IN  save([m EXCEPT !.entries =
                [i \in 1..Len(m.entries) |->
                    IF KeyOf(m.entries[i]) = hash_key
                    THEN [m.entries[i] EXCEPT !.corrections = corrections]
                    ELSE m.entries[i]]],
             "unchanged")

\* LearningMemory.record_correction
record_correction(m, fingerprint, fname, original_value, corrected_value, outcome) ==
    LET hash_key == fingerprint.fingerprint_hash IN
    IF ~HasEntry(m.entries, hash_key) THEN m
    ELSE
    LET entry == GetEntry(m.entries, hash_key)
        same == {k \in 1..Len(entry.corrections) :
                    /\ entry.corrections[k].field_name = fname
                    /\ PyStr(entry.corrections[k].original_value)
                         = PyStr(original_value)}
        existing == CHOOSE k \in same : \A j \in same : k <= j
        corrections ==
            IF same # {}
            THEN [entry.corrections EXCEPT
                    ![existing].corrected_value = corrected_value,
                    ![existing].correction_count = @ + 1]
            ELSE Append(entry.corrections,
                    [field_name |-> fname,
                     original_value |-> original_value,
                     corrected_value |-> corrected_value,
                     document_type |-> fingerprint.document_type,
                     vendor_name |-> fingerprint.vendor_name,
                     correction_count |-> 1])
    IN  save([m EXCEPT !.entries =
                [i \in 1..Len(m.entries) |->
                    IF KeyOf(m.entries[i]) = hash_key
                    THEN [m.entries[i] EXCEPT !.corrections = corrections]
                    ELSE m.entries[i]]],
             outcome)

\* LearningMemory.add_vendor_rule
add_vendor_rule(m, vendor_name, fname, extraction_hint, expected_format, outcome) ==
    LET vendor_lower == Lower(vendor_name) IN
    IF ~(vendor_lower \in DOMAIN m.vendor_index
         /\ m.vendor_index[vendor_lower] # <<>>) THEN m
    ELSE
    LET hash_key == m.vendor_index[vendor_lower][1] IN
    IF ~HasEntry(m.entries, hash_key) THEN m
    ELSE
    LET entry == GetEntry(m.entries, hash_key)
        same == {k \in 1..Len(entry.vendor_rules) :
                    entry.vendor_rules[k].field_name = fname}
        existing == CHOOSE k \in same : \A j \in same : k <= j
        rules ==
            IF same # {}
            THEN [entry.vendor_rules EXCEPT
                    ![existing].extraction_hint = extraction_hint,
                    ![existing].expected_format = expected_format]
            ELSE Append(entry.vendor_rules,
                    [vendor_name |-> vendor_name,
                     field_name |-> fname,
                     extraction_hint |-> extraction_hint,
                     expected_format |-> expected_format,
                     confidence_boost |-> 15])
    IN  save([m EXCEPT !.entries =
                [i \in 1..Len(m.entries) |->
                    IF KeyOf(m.entries[i]) = hash_key
                    THEN [m.entries[i] EXCEPT !.vendor_rules = rules]
                    ELSE m.entries[i]]],
             outcome)

\* LearningMemory.find_match
NoMatch ==
    [found_match |-> FALSE, match_score |-> 0, entry_key |-> <<>>,
     confidence_boost |-> 0]

RECURSIVE BestOf(_, _, _)
BestOf(candidates, fingerprint, best) ==
    IF candidates = <<>> THEN best
    ELSE LET score == similarity_score(fingerprint, Head(candidates).fingerprint)
         IN  BestOf(Tail(candidates), fingerprint,
                    IF score > best.score
                    THEN [score |-> score, entry |-> <<Head(candidates)>>]
                    ELSE best)

find_match(m, fingerprint) ==
    LET exact == HasEntry(m.entries, fingerprint.fingerprint_hash)
        by_vendor ==
            IF Truthy(fingerprint.vendor_name)
               /\ Lower(fingerprint.vendor_name.v) \in DOMAIN m.vendor_index
            THEN LET hashes == m.vendor_index[Lower(fingerprint.vendor_name.v)]
                     present == Filter(hashes, Keys(m.entries))
                 IN  [k \in 1..Len(present) |-> GetEntry(m.entries, present[k])]
            ELSE <<>>
        similar ==
            Filter(m.entries,
                   {e \in SeqToSet(m.entries) :
                        /\ e \notin SeqToSet(by_vendor)
                        /\ similarity_score(fingerprint, e.fingerprint)
                             >= MATCH_THRESHOLD})
        best ==
            IF exact
            THEN [score |-> 100,
                  entry |-> <<GetEntry(m.entries, fingerprint.fingerprint_hash)>>]
            ELSE BestOf(by_vendor \o similar, fingerprint,
                        [score |-> 0, entry |-> <<>>])
    IN  IF best.entry # <<>> /\ best.score >= MATCH_THRESHOLD
        THEN [found_match |-> TRUE,
              match_score |-> best.score,
              entry_key |-> KeyOf(best.entry[1]),
              \* in ten-thousandths: a boost in hundredths times 100, or the
              \* product of a boost and a score, both in hundredths
              confidence_boost |->
                  IF best.score >= 95
                  THEN 100 * (IF best.entry[1].times_confirmed > 0
                              THEN CONFIRMED_PATTERN_BOOST
                              ELSE KNOWN_PATTERN_BOOST)
                  ELSE KNOWN_PATTERN_BOOST * best.score]
        ELSE NoMatch

(***************************************************************************)
(* EnterpriseConfidenceScorer (enterprise_confidence.py).  Category scores  *)
(* and penalties are held in ten-thousandths, weights in hundredths, the    *)
(* overall score in millionths (1000000 is 1.0).                            *)
(***************************************************************************)
WEIGHTS ==
    [ocr |-> 20, consensus |-> 30, layout |-> 15, business |-> 20,
     memory |-> 15]

CONFLICTING_VALUES_PENALTY == 2500

USER_CONFIRMED_BOOST == 200000

SCORER_KNOWN_PATTERN_BOOST == 100000

\* _score_ocr: the score, and the score of the penalty factor it adds
score_ocr(ocr_confidence, low_confidence_words) ==
    LET word_penalty == IF low_confidence_words > 10 THEN 1500
                        ELSE IF low_confidence_words > 5 THEN 800 ELSE 0
    IN  [score |-> Max(0, ocr_confidence * 100 - word_penalty),
         penalty |-> IF low_confidence_words > 0 THEN word_penalty ELSE 0]

\* the loop of _score_consensus over the results, all of them dicts:
\* total_score and conflicts_found
RECURSIVE ConsensusLoop(_, _)
ConsensusLoop(consensus_results, acc) ==
    IF consensus_results = <<>> THEN acc
    ELSE LET result == Head(consensus_results)
             agreement == Get(result, "agreement_count", 0)
             total == Get(result, "total_detectors", 4)
             field_score == IF total > 0 THEN (agreement * 10000) \div total
                            ELSE 5000
         IN  ConsensusLoop(Tail(consensus_results),
                [total_score |-> acc.total_score + field_score,
                 conflicts_found |->
                     acc.conflicts_found
                     + (IF Get(result, "needs_confirmation", FALSE)
                        THEN 1 ELSE 0)])

\* _score_consensus on the to_dict() of the consensus results
score_consensus(consensus_results) ==
    IF consensus_results = <<>> THEN [score |-> 5000, penalty |-> 0]
    ELSE
    LET looped == ConsensusLoop(consensus_results,
                                [total_score |-> 0, conflicts_found |-> 0])
    IN  [score |-> looped.total_score \div Len(consensus_results),
         penalty |-> IF looped.conflicts_found > 0
                     THEN Min(looped.conflicts_found
                                * CONFLICTING_VALUES_PENALTY, 5000)
                     ELSE 0]

\* _score_layout
score_layout(layout_consistent, fields_in_expected_zones) ==
    5000 + (IF layout_consistent THEN 2500 ELSE 0)
         + (IF fields_in_expected_zones THEN 2500 ELSE 0)

\* _score_business_rules; the documents of the model carry a date that
\* passes rule 2.  A total is held in thousandths, a vendor as its characters
score_business_rules(extracted_fields, document_type) ==
    LET total == extracted_fields.total_amount
        vendor == extracted_fields.vendor
        rule1 == IF total = None THEN 0
                 ELSE IF total.v <= 0 THEN 2000
                 ELSE IF \/ total.v \div 1000 > 100000000
                         \/ /\ total.v \div 1000 = 100000000
                            /\ total.v % 1000 > 0
                      THEN 1000 ELSE 0
        rule3 == IF ~Truthy(vendor) THEN 0
                 ELSE IF Len(vendor.v) < 3 THEN 1000
                 ELSE IF Len(vendor.v) > 100 THEN 1000 ELSE 0
        missing == (IF total = None \/ total.v = 0 THEN 1 ELSE 0)
                   + (IF ~Truthy(vendor) THEN 1 ELSE 0)
        rule4 == IF document_type \in {"receipt", "invoice"}
                 THEN missing * 1000 ELSE 0
    IN  Max(0, Min(10000, 7000 - rule1 - rule3 - rule4))

\* _score_memory; the match score is in hundredths
score_memory(memory_match_score, user_confirmed) ==
    IF user_confirmed THEN [score |-> 10000, boost |-> "user_confirmed"]
    ELSE IF memory_match_score >= 90
    THEN [score |-> 9000, boost |-> "known_pattern_strong"]
    ELSE IF memory_match_score >= 60
    THEN [score |-> 7000, boost |-> "known_pattern"]
    ELSE IF memory_match_score > 0
    THEN [score |-> 5000 + memory_match_score * 20, boost |-> "none"]
    ELSE [score |-> 5000, boost |-> "none"]

\* ConfidenceLevel.from_score
from_score(score) ==
    IF score >= 950000 THEN "verified"
    ELSE IF score >= 800000 THEN "high"
    ELSE IF score >= 600000 THEN "medium"
    ELSE IF score >= 400000 THEN "low"
    ELSE IF score >= 200000 THEN "very_low"
    ELSE "unreliable"

\* EnterpriseConfidenceScorer.compute_confidence: weighted average, minus
\* the penalty factors, plus the boost of the memory category
compute_confidence(ocr_confidence, low_confidence_words, consensus_results, layout_consistent, fields_in_expected_zones, extracted_fields, document_type, memory_match_score, user_confirmed) ==
    LET ocr == score_ocr(ocr_confidence, low_confidence_words)
        cons == score_consensus(consensus_results)
        layout == score_layout(layout_consistent, fields_in_expected_zones)
        business == score_business_rules(extracted_fields, document_type)
        memory == score_memory(memory_match_score, user_confirmed)
        base_score == ocr.score * WEIGHTS.ocr + cons.score * WEIGHTS.consensus
                      + layout * WEIGHTS.layout + business * WEIGHTS.business
                      + memory.score * WEIGHTS.memory
        total_penalty == (ocr.penalty + cons.penalty) * 100
        final_score == Max(0, Min(1000000, base_score - total_penalty))
        boosted ==
            IF memory.boost = "user_confirmed"
            THEN Min(1000000, final_score + USER_CONFIRMED_BOOST)
            ELSE IF memory.boost \in {"known_pattern_strong", "known_pattern"}
            THEN Min(1000000, final_score + SCORER_KNOWN_PATTERN_BOOST)
            ELSE final_score
    IN  [overall_score |-> boosted, level |-> from_score(boosted)]

(***************************************************************************)
(* EnterpriseDocumentIntelligence (enterprise_intelligence.py) and the     *)
(* process-global memory instance                                          *)
(***************************************************************************)
\* get_learning_memory: the global instance, constructed (and loaded from
\* the file) on first use
get_learning_memory ==
    IF loaded THEN [entries |-> entries, vendor_index |-> vendor_index]
    ELSE load(file)

\* the global memory as a call finds it
Memory == [entries |-> get_learning_memory.entries,
           vendor_index |-> get_learning_memory.vendor_index,
           file |-> file, pruned |-> 0]

\* one more call is made
Call == calls < MaxCalls /\ calls' = calls + 1

SetMemory(m) ==
    /\ entries' = m.entries
    /\ vendor_index' = m.vendor_index
    /\ file' = m.file
    /\ pruned' = m.pruned

\* the fingerprint _update_memory and apply_user_corrections build
StoredFingerprint(text, document_type, fields) ==
    create_fingerprint(text, document_type, fields.vendor, fields.currency)

\* the fingerprint _apply_memory looks up: the hint as type, no vendor
LookupFingerprint(text, document_hint) ==
    create_fingerprint(text, document_hint, None, "KES")

NewEntry(fingerprint) ==
    [fingerprint |-> fingerprint, field_positions |-> <<>>,
     corrections |-> <<>>, vendor_rules |-> <<>>,
     times_seen |-> 1, times_confirmed |-> 0]

\* fingerprints of entries a storage file may hold
FileFingerprints ==
    <<create_fingerprint(D3.text, D3.document_type, D3.vendor, D3.currency),
      create_fingerprint(D3.text, D3.document_type, Str(<<"a">>), D3.currency),
      create_fingerprint(D1.text, D1.document_type, Str(<<"a">>), D1.currency),
      create_fingerprint(D1.text, D1.document_type, D1.vendor, D1.currency),
      create_fingerprint(D2.text, D2.document_type, D2.vendor, D2.currency)>>

\* a well-formed storage file with one entry more than the cap, as left by
\* a run with a larger cap or written by hand
LargeFile ==
    SavedFile([i \in 1..(MAX_ENTRIES + 1) |-> NewEntry(FileFingerprints[i])])

\* a storage file at the cap, as left by earlier runs: an entry of D2 seen
\* once, the other entries seen twice and confirmed once
SeasonedFile ==
    SavedFile(<<NewEntry(FileFingerprints[5])>>
              \o [i \in 1..(MAX_ENTRIES - 1) |->
                    [NewEntry(FileFingerprints[i]) EXCEPT
                        !.times_seen = 2, !.times_confirmed = 1]])

\* a storage file that parses as JSON and whose second entry has no
\* 'fingerprint': from_dict raises on it after the first entry, listed in
\* entries, has been put in the dicts
MalformedFile ==
    [state |-> "ok",
     entries |-> <<to_dict(NewEntry(FileFingerprints[1])),
                   [times_seen |-> 2, times_confirmed |-> 1]>>]

InitialFiles ==
    {[state |-> "absent", entries |-> <<>>], LargeFile, SeasonedFile}

Init ==
    /\ field_name = "idle"
    /\ next_detector = 1
    /\ detector_results = <<>>
    /\ consensus = NotBuilt
    /\ file \in InitialFiles
    /\ loaded = FALSE
    /\ entries = <<>>
    /\ vendor_index = <<>>
    /\ last_result = NoResult
    /\ pruned = 0
    /\ calls = 0
    /\ last_call = NoCall
    /\ first_run = NoRun
    /\ run = NoProcess
    /\ heap = <<>>
    /\ refs = <<>>
    /\ threads = NoThreads
    /\ at_start = NoThreads
    /\ applied = NotApplied

\* EnterpriseDocumentIntelligence.__init__: with learning enabled it takes
\* the global memory
ConstructEngine(enable_learning) ==
    /\ Call
    /\ IF enable_learning
       THEN /\ loaded' = TRUE
            /\ entries' = get_learning_memory.entries
            /\ vendor_index' = get_learning_memory.vendor_index
       ELSE UNCHANGED <<loaded, entries, vendor_index>>
    /\ pruned' = 0
    /\ last_result' = NoResult
    /\ UNCHANGED file
    /\ UNCHANGED other_vars

\* the process ends: the global instance is gone, the file
\* stays
Restart ==
    /\ Call
    /\ loaded
    /\ loaded' = FALSE
    /\ entries' = <<>>
    /\ vendor_index' = <<>>
    /\ last_result' = NoResult
    /\ pruned' = 0
    /\ UNCHANGED file
    /\ UNCHANGED other_vars

\* evaluate_extraction asks for confirmation whenever a critical field is
\* missing; otherwise it depends on the consensus levels and on the overall
\* confidence, which follows the OCR confidence
MayNeedConfirmation(doc) == IF doc.vendor = None THEN {TRUE} ELSE BOOLEAN

\* _apply_memory looking the document up whether or not learning is enabled
apply_memory_always(m, enable_learning, text, document_hint) ==
    find_match(m, LookupFingerprint(text, document_hint))

\* _apply_memory: no lookup without a learning memory
apply_memory(m, enable_learning, text, document_hint) ==
    IF enable_learning
    THEN find_match(m, LookupFingerprint(text, document_hint))
    ELSE NoMatch

\* _build_fields_from_consensus, _detect_currency: the fields of the model
build_fields_from_consensus(doc) ==
    [vendor |-> doc.vendor, total_amount |-> doc.total_amount,
     currency |-> doc.currency]

\* _compute_confidence: the layout is consistent when it has lines, the
\* fields are taken to be in their zones, user_confirmed is False
engine_compute_confidence(doc, extracted_fields, document_type, memory_result) ==
    compute_confidence(doc.best_confidence, doc.low_confidence_words,
                       doc.consensus, doc.text.line_count > 0, TRUE,
                       extracted_fields, document_type,
                       memory_result.match_score, FALSE)

\* _compute_confidence of every document of the model at every match
\* score, tabulated once: a document's fields and type are those of
\* build_fields_from_consensus and _classify_document
ConfidenceTable ==
    [doc \in Documents, match_score \in 0..100 |->
        engine_compute_confidence(doc, build_fields_from_consensus(doc),
                                  doc.document_type,
                                  [match_score |-> match_score])]

\* _update_memory
update_memory(m, text, document_type, extracted_fields, needs_confirmation, outcome) ==
    learn_from_document(m,
                        StoredFingerprint(text, document_type, extracted_fields),
                        ~needs_confirmation, outcome)

\* _build_result
build_result(doc, document_type, extracted_fields, confidence_result, needs_confirmation, memory_result, processing_steps) ==
    [success |-> TRUE,
     error |-> None,
     raw_text |-> doc.primary_text,
     cleaned_text |-> doc.text,
     document_type |-> document_type,
     extracted_fields |-> extracted_fields,
     consensus_details |-> doc.consensus,
     confidence |-> confidence_result.overall_score,
     confidence_level |-> confidence_result.level,
     needs_confirmation |-> needs_confirmation,
     memory_match_found |-> memory_result.found_match,
     memory_match_score |-> memory_result.match_score,
     processing_steps |-> processing_steps]

\* the states process_image records when nothing stops it
ProcessingSteps(enable_learning) ==
    <<"preprocess", "ocr", "clean", "layout", "memory", "consensus",
      "confidence", "confirmation">>
    \o (IF enable_learning THEN <<"learn">> ELSE <<>>)

\* process_image on the memory m, of a document whose OCR text is not empty
\* and when no step raises: the result it returns
process_result(m, enable_learning, doc, document_hint, needs_confirmation) ==
    LET memory_result == apply_memory(m, enable_learning, doc.text,
                                      document_hint)
        extracted_fields == build_fields_from_consensus(doc)
        confidence_result == ConfidenceTable[doc, memory_result.match_score]
    IN  build_result(doc, doc.document_type, extracted_fields,
                     confidence_result, needs_confirmation, memory_result,
                     ProcessingSteps(enable_learning))

\* the same run of process_image: the memory it leaves with the result
process_image(m, enable_learning, doc, document_hint, needs_confirmation, outcome) ==
    [m |-> IF enable_learning
           THEN update_memory(m, doc.text, doc.document_type,
                              build_fields_from_consensus(doc),
                              needs_confirmation, outcome)
           ELSE m,
     result |-> process_result(m, enable_learning, doc, document_hint,
                               needs_confirmation)]

\* a memory with no entries and no file
EmptyMemory ==
    [entries |-> <<>>, vendor_index |-> <<>>,
     file |-> [state |-> "absent", entries |-> <<>>], pruned |-> 0]

\* the result apply_user_corrections is given back: what process_image
\* returned of the document, hint "unknown", when the memory was empty
ResultOf(doc) == process_result(EmptyMemory, TRUE, doc, "unknown", TRUE)

\* process_document_enterprise: process_image on a newly constructed engine
ProcessImage(enable_learning, doc, document_hint, needs_confirmation, outcome) ==
    /\ Call
    /\ needs_confirmation \in MayNeedConfirmation(doc)
    /\ enable_learning \/ outcome = "ok"
    /\ \E out \in {process_image(Memory, enable_learning, doc, document_hint,
                                 needs_confirmation, outcome)} :
          /\ IF enable_learning
             THEN SetMemory(out.m)
             ELSE /\ pruned' = 0
                  /\ UNCHANGED <<entries, vendor_index, file>>
          /\ last_result' = out.result
    /\ loaded' = (loaded \/ enable_learning)
    /\ UNCHANGED other_vars

\* corrections the user may send: a dict, in order, of field -> value
CorrectionValues(fname) ==
    IF fname = "vendor" THEN {Str(<<"a">>)} ELSE {Float(1010)}

CorrectionDicts ==
    {<<>>}
    \cup {<<<<f, v>>>> : f \in {"vendor"}, v \in CorrectionValues("vendor")}
    \cup {<<<<f, v>>>> : f \in {"total_amount"}, v \in CorrectionValues("total_amount")}
    \cup {<<<<"vendor", v>>, <<"total_amount", t>>>> :
            v \in CorrectionValues("vendor"), t \in CorrectionValues("total_amount")}
    \cup {<<<<"total_amount", t>>, <<"vendor", v>>>> :
            v \in CorrectionValues("vendor"), t \in CorrectionValues("total_amount")}

\* lines 759-777: the loop over corrections.items()
RECURSIVE CorrectionLoop(_, _, _, _, _, _, _)
CorrectionLoop(enable_learning, m, updated_fields, corrections, k, original_result, outcome) ==
    IF k > Len(corrections) THEN [m |-> m, fields |-> updated_fields]
    ELSE
    LET fname == corrections[k][1]
        corrected_value == corrections[k][2]
        original_value == updated_fields[fname]
        fields == [updated_fields EXCEPT ![fname] = corrected_value]
        fingerprint == StoredFingerprint(original_result.cleaned_text,
                                         original_result.document_type, fields)
        recorded ==
            IF enable_learning /\ original_value # corrected_value
            THEN record_correction(m, fingerprint, fname, original_value,
                                   corrected_value, outcome)
            ELSE m
    IN  CorrectionLoop(enable_learning, recorded, fields, corrections, k + 1,
                       original_result, outcome)

\* apply_user_corrections(document_id, corrections, original_result) on the
\* memory m: the memory it leaves and the result it returns
apply_user_corrections(m, enable_learning, corrections, original_result, outcome) ==
    LET looped == CorrectionLoop(enable_learning, m,
                                 original_result.extracted_fields,
                                 corrections, 1, original_result, outcome)
        fingerprint == StoredFingerprint(original_result.cleaned_text,
                                         original_result.document_type,
                                         looped.fields)
    IN  [m |-> IF enable_learning
               THEN learn_from_document(looped.m, fingerprint, TRUE, outcome)
               ELSE m,
         result |->
             [success |-> TRUE,
              error |-> None,
              raw_text |-> original_result.raw_text,
              cleaned_text |-> original_result.cleaned_text,
              document_type |-> original_result.document_type,
              extracted_fields |-> looped.fields,
              consensus_details |-> original_result.consensus_details,
              confidence |-> Min(990000, original_result.confidence + 150000),
              confidence_level |-> "verified",
              needs_confirmation |-> FALSE,
              memory_match_found |-> TRUE,
              memory_match_score |-> 100,
              processing_steps |->
                  Append(original_result.processing_steps, "user_correction")]]

\* apply_user_corrections on a newly constructed engine, the
\* original_result being what process_image returned of doc
ApplyUserCorrections(enable_learning, doc, corrections, outcome) ==
    /\ Call
    /\ enable_learning \/ outcome = "ok"
    /\ \E out \in {apply_user_corrections(Memory, enable_learning, corrections,
                                          ResultOf(doc), outcome)} :
          /\ IF enable_learning
             THEN SetMemory(out.m)
             ELSE /\ pruned' = 0
                  /\ UNCHANGED <<entries, vendor_index, file>>
          /\ last_result' = out.result
    /\ loaded' = (loaded \/ enable_learning)
    /\ UNCHANGED other_vars

(***************************************************************************)
(* Calls made on the global LearningMemory directly.  learn_from_document  *)
(* and record_correction are called by the engine only; add_vendor_rule has *)
(* no caller in the repository and is called on get_learning_memory().      *)
(***************************************************************************)
AddVendorRule(vendor_name, fname, extraction_hint, expected_format, outcome) ==
    /\ Call
    /\ \E m \in {add_vendor_rule(Memory, vendor_name, fname, extraction_hint,
                                 expected_format, outcome)} :
            SetMemory(m)
    /\ last_result' = NoResult
    /\ loaded' = TRUE
    /\ UNCHANGED other_vars

Next ==
    \/ \E enable_learning \in BOOLEAN : ConstructEngine(enable_learning)
    \/ Restart
    \/ \E enable_learning \in BOOLEAN, doc \in Documents,
          document_hint \in DocumentHints, needs_confirmation \in BOOLEAN,
          outcome \in SaveOutcomes :
            ProcessImage(enable_learning, doc, document_hint,
                         needs_confirmation, outcome)
    \/ \E enable_learning \in BOOLEAN, doc \in Documents,
          corrections \in CorrectionDicts, outcome \in SaveOutcomes :
            ApplyUserCorrections(enable_learning, doc, corrections, outcome)
    \/ \E outcome \in SaveOutcomes :
            AddVendorRule(<<"A">>, "total_amount", "line_after_TOTAL", <<>>,
                          outcome)

Spec == Init /\ [][Next]_vars

(***************************************************************************)
(* Claims on the Learning Memory and the engine.  A step of the engine is   *)
(* told by the result it returns: process_image returns a result whose      *)
(* processing steps do not end in "user_correction",                        *)
(* apply_user_corrections one whose steps do; the calls made on the memory  *)
(* itself return no result.                                                 *)
(***************************************************************************)
Fp(doc) ==
    create_fingerprint(doc.text, doc.document_type, doc.vendor, doc.currency)

\* the result is one of apply_user_corrections
Corrected(result) ==
    /\ result.success
    /\ result.processing_steps[Len(result.processing_steps)] = "user_correction"

Returned(corrected) ==
    /\ calls' = calls + 1
    /\ last_result'.success
    /\ Corrected(last_result') = corrected

ProcessStep == Returned(FALSE)

ConfirmStep == Returned(TRUE)

\* the document a returned result is about
DocOf(result) == CHOOSE d \in Documents : d.text = result.cleaned_text

\* what a call that ends in a save leaves of the storage file tells the
\* outcome of the save
SavedWith(outcome) ==
    IF outcome = "ok" THEN file' = SavedFile(entries')
    ELSE IF outcome = "partial" THEN file' = CorruptFile
    ELSE file' = file

\* the fields a result has after the corrections of a dict
FieldsAfter(doc, corrections) ==
    [f \in DOMAIN build_fields_from_consensus(doc) |->
        IF \E k \in 1..Len(corrections) : corrections[k][1] = f
        THEN LET k == CHOOSE k \in 1..Len(corrections) : corrections[k][1] = f
             IN  corrections[k][2]
        ELSE build_fields_from_consensus(doc)[f]]

\* process_image, with learning enabled, has returned last_result'
Processed(document_hint, outcome) ==
    /\ ProcessStep
    /\ loaded'
    /\ SavedWith(outcome)
    /\ ProcessImage(TRUE, DocOf(last_result'), document_hint,
                    last_result'.needs_confirmation, outcome)

\* apply_user_corrections, with learning enabled, has returned last_result'
Confirmed(corrections, outcome) ==
    /\ ConfirmStep
    /\ loaded'
    /\ SavedWith(outcome)
    /\ FieldsAfter(DocOf(last_result'), corrections)
          = last_result'.extracted_fields
    /\ ApplyUserCorrections(TRUE, DocOf(last_result'), corrections, outcome)

\* C4: a constructed memory never holds more than MAX_ENTRIES entries
C4_EntriesCapped == loaded => Len(entries) <= MAX_ENTRIES

\* utility of the entries a learn_from_document call leaves to the pruning:
\* the learned entry counted once more (or created), the others as they were
UtilityAfterLearn(before, h, fingerprint, user_confirmed) ==
    LET gain == 1 + (IF user_confirmed THEN 2 ELSE 0)
    IN  IF h = fingerprint.fingerprint_hash
        THEN gain + (IF HasEntry(before, h)
                     THEN Utility(GetEntry(before, h))
                     ELSE 0)
        ELSE Utility(GetEntry(before, h))

\* the call takes the number of entries above MAX_ENTRIES
Exceeds(fingerprint) ==
    Cardinality(Keys(Memory.entries) \cup {fingerprint.fingerprint_hash}) > MAX_ENTRIES

PruneKeepsMostUseful(fingerprint, user_confirmed) ==
    LET before == Memory.entries
        all == Keys(before) \cup {fingerprint.fingerprint_hash}
        kept == Keys(entries')
    IN  /\ Len(entries') = MAX_ENTRIES
        /\ Cardinality(kept) = MAX_ENTRIES
        /\ kept \subseteq all
        /\ \A r \in all \ kept, k \in kept :
               UtilityAfterLearn(before, r, fingerprint, user_confirmed)
                   <= UtilityAfterLearn(before, k, fingerprint, user_confirmed)

\* the fingerprint apply_user_corrections has learned
ConfirmedFp ==
    StoredFingerprint(last_result'.cleaned_text, last_result'.document_type,
                      last_result'.extracted_fields)

\* C5: a learn_from_document call (made by process_image or by
\* apply_user_corrections) that takes the number of entries
\* above MAX_ENTRIES leaves exactly MAX_ENTRIES entries, and no removed
\* entry has a strictly higher utility than a retained one
C5_PruneKeepsMostUseful ==
    [][/\ (/\ ProcessStep
           /\ Exceeds(Fp(DocOf(last_result')))
           /\ \E document_hint \in DocumentHints, outcome \in SaveOutcomes :
                 Processed(document_hint, outcome))
          => PruneKeepsMostUseful(Fp(DocOf(last_result')),
                                  ~last_result'.needs_confirmation)
       /\ (/\ ConfirmStep
           /\ Exceeds(ConfirmedFp)
           /\ \E corrections \in CorrectionDicts, outcome \in SaveOutcomes :
                 Confirmed(corrections, outcome))
          => PruneKeepsMostUseful(ConfirmedFp, TRUE)]_vars

\* a learn_from_document call has just pruned a full memory, and entries of
\* different utility were at stake
C5_Witness ==
    /\ loaded
    /\ pruned > 0
    /\ Len(entries) = MAX_ENTRIES
    /\ \E i \in 1..Len(entries) : Utility(entries[i]) > 1

\* what a learn_from_document call is to leave of the entries: the learned
\* entry seen once more (or once), confirmed once more if and only if
\* user_confirmed, the other retained entries as they were
LearnCounts(fingerprint, user_confirmed) ==
    LET key == fingerprint.fingerprint_hash
        before == Memory.entries
        confirmed == IF user_confirmed THEN 1 ELSE 0
    IN  /\ HasEntry(entries', key)
        /\ IF HasEntry(before, key)
           THEN /\ GetEntry(entries', key).times_seen
                     = GetEntry(before, key).times_seen + 1
                /\ GetEntry(entries', key).times_confirmed
                     = GetEntry(before, key).times_confirmed + confirmed
           ELSE /\ GetEntry(entries', key).times_seen = 1
                /\ GetEntry(entries', key).times_confirmed = confirmed
        /\ \A h \in Keys(entries') \ {key} :
              /\ HasEntry(before, h)
              /\ GetEntry(entries', h) = GetEntry(before, h)

\* C6: the learn_from_document call of a process_image leaves the learned
\* entry created with times_seen = 1 or seen exactly once more, confirmed
\* once more if and only if user_confirmed, and every other retained entry
\* unchanged
C6_LearnCountsOneSighting ==
    [][ProcessStep =>
          \A document_hint \in DocumentHints, outcome \in SaveOutcomes :
             Processed(document_hint, outcome)
             => LearnCounts(Fp(DocOf(last_result')),
                            ~last_result'.needs_confirmation)]_vars

\* C7: when the memory and the storage file hold the entry process_image
\* has stored for a document, a confirmation of that document, with any
\* corrections, raises the times_confirmed of that entry by exactly 1, as
\* read back from the file
C7_ConfirmationCounted ==
    [][ConfirmStep =>
          LET key == Fp(DocOf(last_result')).fingerprint_hash
              stored == load(file).entries
          IN  /\ HasEntry(stored, key)
              /\ HasEntry(Memory.entries, key)
              /\ GetEntry(stored, key) = GetEntry(Memory.entries, key)
              => \A corrections \in CorrectionDicts :
                    Confirmed(corrections, "ok")
                    => /\ HasEntry(load(file').entries, key)
                       /\ GetEntry(load(file').entries, key).times_confirmed
                            = GetEntry(stored, key).times_confirmed + 1]_vars

\* C8: a process_image with learning enabled leaves the times_confirmed of
\* every entry as it was, and that of a new entry at 0
C8_ProcessDoesNotConfirm ==
    [][ProcessStep =>
          \A document_hint \in DocumentHints, outcome \in SaveOutcomes :
             Processed(document_hint, outcome)
             => \A i \in 1..Len(entries') :
                   entries'[i].times_confirmed
                     = IF HasEntry(Memory.entries, KeyOf(entries'[i]))
                       THEN GetEntry(Memory.entries,
                                     KeyOf(entries'[i])).times_confirmed
                       ELSE 0]_vars

\* some entry holds a UserCorrection of the field from the one value to the
\* other
HoldsCorrection(ents, fname, original_value, corrected_value) ==
    \E i \in 1..Len(ents) : \E k \in 1..Len(ents[i].corrections) :
        /\ ents[i].corrections[k].field_name = fname
        /\ ents[i].corrections[k].original_value = original_value
        /\ ents[i].corrections[k].corrected_value = corrected_value

\* C9: after apply_user_corrections with learning enabled the memory holds
\* a UserCorrection for every field whose corrected value differs from the
\* original one
C9_CorrectionsRecorded ==
    [][ConfirmStep =>
          \A corrections \in CorrectionDicts, outcome \in SaveOutcomes :
             Confirmed(corrections, outcome)
             => \A k \in 1..Len(corrections) :
                   LET fname == corrections[k][1]
                       original_value ==
                           build_fields_from_consensus(DocOf(last_result'))[fname]
                   IN  corrections[k][2] # original_value
                       => HoldsCorrection(entries', fname, original_value,
                                          corrections[k][2])]_vars

\* C10: when a document has been processed with learning enabled and then
\* confirmed (its entry has been seen twice and confirmed, and the
\* confirmation, the last call, kept its vendor), processing it again
\* returns memory_match_found with a score of at least 0.95
C10_SecondSightingMatches ==
    [][/\ ProcessStep
       /\ Corrected(last_result)
       /\ last_result.cleaned_text = last_result'.cleaned_text
       /\ last_result.extracted_fields.vendor
            = last_result'.extracted_fields.vendor
       /\ LET key == Fp(DocOf(last_result')).fingerprint_hash
          IN  /\ HasEntry(Memory.entries, key)
              /\ GetEntry(Memory.entries, key).times_seen >= 2
              /\ GetEntry(Memory.entries, key).times_confirmed >= 1
       => \A document_hint \in DocumentHints, outcome \in SaveOutcomes :
             Processed(document_hint, outcome)
             => /\ last_result'.memory_match_found
                /\ last_result'.memory_match_score >= 95]_vars

\* a call of an engine constructed with enable_learning = false has returned
NoLearningStep ==
    /\ calls' = calls + 1
    /\ last_result'.success
    /\ \/ \E doc \in Documents, document_hint \in DocumentHints,
             needs_confirmation \in BOOLEAN :
               ProcessImage(FALSE, doc, document_hint, needs_confirmation, "ok")
       \/ \E doc \in Documents, corrections \in CorrectionDicts :
               ApplyUserCorrections(FALSE, doc, corrections, "ok")

\* C12: a process_image or apply_user_corrections call of an engine
\* constructed with enable_learning = false leaves the entries, the vendor
\* index and the storage file of the Learning Memory as they were, does not
\* construct (load) the memory, and returns a result whose memory match is
\* not found
C12_NoLearningNoMemory ==
    [][NoLearningStep
       => /\ UNCHANGED <<entries, vendor_index, file, loaded>>
          /\ ~last_result'.memory_match_found]_vars

\* C15: a save is atomic: whatever happens during the save of a call,
\* failure and interruption included, the storage file afterwards holds
\* either the complete state it held before or the complete new state of
\* the memory, never a partial one
C15_SaveAtomic ==
    [][file' = file \/ file' = SavedFile(entries')]_vars

(***************************************************************************)
(* Part 3: the LearningMemory called directly (learning_memory.py).  The    *)
(* process takes the global instance, calls learn_from_document,            *)
(* record_correction and add_vendor_rule on it, and may exit and start      *)
(* again on the file it left.                                               *)
(***************************************************************************)
\* calls made on the memory in one behaviour
MaxMemoryCalls == 3

\* fingerprints the calls are made with: that of D1 (vendor "A") and that
\* of D3 (vendor "b")
MemoryFingerprints == {Fp(D1), Fp(D3)}

MemoryFiles == {[state |-> "absent", entries |-> <<>>], SeasonedFile,
                MalformedFile}

InitMemory ==
    /\ field_name = "idle"
    /\ next_detector = 1
    /\ detector_results = <<>>
    /\ consensus = NotBuilt
    /\ file \in MemoryFiles
    /\ loaded = FALSE
    /\ entries = <<>>
    /\ vendor_index = <<>>
    /\ last_result = NoResult
    /\ pruned = 0
    /\ calls = 0
    /\ last_call = NoCall
    /\ first_run = NoRun
    /\ run = NoProcess
    /\ heap = <<>>
    /\ refs = <<>>
    /\ threads = NoThreads
    /\ at_start = NoThreads
    /\ applied = NotApplied

\* what a call on the memory itself leaves alone
memory_frame == <<consensus_vars, last_result, first_run, run, concurrent_vars,
      applied>>

MemoryCall == calls < MaxMemoryCalls /\ calls' = calls + 1

\* get_learning_memory(), first use: LearningMemory() is constructed and
\* _load reads the file
CallGetLearningMemory ==
    /\ MemoryCall
    /\ ~loaded
    /\ loaded' = TRUE
    /\ entries' = load(file).entries
    /\ vendor_index' = load(file).vendor_index
    /\ pruned' = 0
    /\ last_call' = [op |-> "get_learning_memory"]
    /\ UNCHANGED file
    /\ UNCHANGED memory_frame

\* the process exits: the instance is gone, the file stays
CallExit ==
    /\ MemoryCall
    /\ loaded
    /\ loaded' = FALSE
    /\ entries' = <<>>
    /\ vendor_index' = <<>>
    /\ pruned' = 0
    /\ last_call' = [op |-> "exit"]
    /\ UNCHANGED file
    /\ UNCHANGED memory_frame

\* learn_from_document on the constructed memory
CallLearnFromDocument(fingerprint, user_confirmed, outcome) ==
    /\ MemoryCall
    /\ loaded
    /\ \E m \in {learn_from_document(Memory, fingerprint, user_confirmed,
                                     outcome)} :
            SetMemory(m)
    /\ last_call' = [op |-> "learn_from_document", fingerprint |-> fingerprint,
                     user_confirmed |-> user_confirmed, outcome |-> outcome]
    /\ UNCHANGED loaded
    /\ UNCHANGED memory_frame

\* record_correction on the constructed memory
CallRecordCorrection(fingerprint, fname, original_value, corrected_value, outcome) ==
    /\ MemoryCall
    /\ loaded
    /\ \E m \in {record_correction(Memory, fingerprint, fname, original_value,
                                   corrected_value, outcome)} :
            SetMemory(m)
    /\ last_call' = [op |-> "record_correction", fingerprint |-> fingerprint,
                     field_name |-> fname, original_value |-> original_value,
                     corrected_value |-> corrected_value, outcome |-> outcome]
    /\ UNCHANGED loaded
    /\ UNCHANGED memory_frame

\* add_vendor_rule on the constructed memory
CallAddVendorRule(vendor_name, fname, extraction_hint, expected_format, outcome) ==
    /\ MemoryCall
    /\ loaded
    /\ \E m \in {add_vendor_rule(Memory, vendor_name, fname, extraction_hint,
                                 expected_format, outcome)} :
            SetMemory(m)
    /\ last_call' = [op |-> "add_vendor_rule", vendor_name |-> vendor_name,
                     field_name |-> fname, extraction_hint |-> extraction_hint,
                     expected_format |-> expected_format, outcome |-> outcome]
    /\ UNCHANGED loaded
    /\ UNCHANGED memory_frame

NextMemory ==
    \/ CallGetLearningMemory
    \/ CallExit
    \/ \E fingerprint \in MemoryFingerprints, user_confirmed \in BOOLEAN,
          outcome \in SaveOutcomes :
            CallLearnFromDocument(fingerprint, user_confirmed, outcome)
    \/ \E fingerprint \in MemoryFingerprints,
          corrected_value \in {Str(<<"a">>), None}, outcome \in SaveOutcomes :
            CallRecordCorrection(fingerprint, "vendor", Str(<<"A">>),
                                 corrected_value, outcome)
    \/ \E vendor_name \in {<<"A">>, <<"b">>}, outcome \in SaveOutcomes :
            CallAddVendorRule(vendor_name, "total_amount", "line_after_TOTAL",
                              <<>>, outcome)

SpecMemory == InitMemory /\ [][NextMemory]_vars

\* the memory the call leaves of the memory m when its saves have the
\* outcome
Applied(call, m, outcome) ==
    IF call.op = "learn_from_document"
    THEN learn_from_document(m, call.fingerprint, call.user_confirmed, outcome)
    ELSE IF call.op = "record_correction"
    THEN record_correction(m, call.fingerprint, call.field_name,
                           call.original_value, call.corrected_value, outcome)
    ELSE add_vendor_rule(m, call.vendor_name, call.field_name,
                         call.extraction_hint, call.expected_format, outcome)

\* a call that changes the memory has just returned
MemoryChanged ==
    /\ calls' = calls + 1
    /\ last_call'.op \in {"learn_from_document", "record_correction",
                          "add_vendor_rule"}

\* the storage file is there and _load fails on it
Unreadable(f) ==
    f.state = "corrupt" \/ (f.state = "ok" /\ FirstBad(f) <= Len(f.entries))

\* C16: memory I/O failures are absorbed.  A learn_from_document,
\* record_correction or add_vendor_rule call whose writes of the storage
\* file fail returns and leaves in memory the entries and the vendor index
\* it leaves when the writes succeed; a LearningMemory constructed on a file
\* that cannot be read starts with no entries and an empty vendor index
C16_IOFailuresAbsorbed ==
    [][/\ (MemoryChanged /\ last_call'.outcome # "ok")
          => LET ok == Applied(last_call', Memory, "ok")
             IN  /\ entries' = ok.entries
                 /\ vendor_index' = ok.vendor_index
                 /\ loaded'
       /\ (/\ calls' = calls + 1
           /\ last_call'.op = "get_learning_memory"
           /\ Unreadable(file))
          => /\ loaded'
             /\ entries' = <<>>
             /\ vendor_index' = <<>>]_vars

\* the memory was constructed on a file that cannot be read and a document
\* was learned while the file could not be written: the memory holds the
\* learned entry only, the file is as it was
C16_Witness ==
    /\ loaded
    /\ file = MalformedFile
    /\ last_call.op = "learn_from_document"
    /\ last_call.outcome = "unchanged"
    /\ Len(entries) = 1
    /\ KeyOf(entries[1]) = last_call.fingerprint.fingerprint_hash

\* C17: in every state the constructed memory reaches by learn_from_document,
\* record_correction and add_vendor_rule calls, saving it and constructing
\* a new LearningMemory from the file gives as many entries, under the same
\* keys and in the same order, each with a to_dict equal to the to_dict of
\* the saved entry
C17_RoundTrip ==
    loaded =>
        LET saved == save(Memory, "ok")
            reloaded == load(saved.file).entries
        IN  /\ Len(reloaded) = Len(entries)
            /\ \A i \in 1..Len(entries) :
                  /\ KeyOf(reloaded[i]) = KeyOf(entries[i])
                  /\ to_dict(reloaded[i]) = to_dict(entries[i])

\* the memory holds an entry seen more than once, confirmed, with a
\* correction to None and a vendor rule, written by the last call
C17_Witness ==
    /\ loaded
    /\ last_call.op \in {"record_correction", "add_vendor_rule"}
    /\ last_call.outcome = "ok"
    /\ \E i \in 1..Len(entries) :
          /\ entries[i].times_seen > 1
          /\ entries[i].times_confirmed > 0
          /\ entries[i].vendor_rules # <<>>
          /\ \E k \in 1..Len(entries[i].corrections) :
                entries[i].corrections[k].corrected_value = None

(***************************************************************************)
(* Part 4: process_image run twice in succession on one input, learning    *)
(* enabled, with or without apply_user_corrections on the first result in   *)
(* between.  The memory is the global instance, as the file of earlier      *)
(* runs left it.                                                            *)
(***************************************************************************)
\* what a call of Part 4 leaves alone
repeat_frame == <<consensus_vars, last_call, calls, run, concurrent_vars,
      applied>>

\* process_image(image, document_hint) of the document, first run
FirstRun(doc, document_hint, needs_confirmation, outcome) ==
    /\ first_run = NoRun
    /\ needs_confirmation \in MayNeedConfirmation(doc)
    /\ \E out \in {process_image(Memory, TRUE, doc, document_hint,
                                 needs_confirmation, outcome)} :
          /\ SetMemory(out.m)
          /\ last_result' = out.result
          /\ first_run' = [phase |-> "first", doc |-> doc,
                           document_hint |-> document_hint,
                           confidence |-> out.result.confidence]
    /\ loaded' = TRUE
    /\ UNCHANGED repeat_frame

\* apply_user_corrections(document_id, corrections, original_result) on the
\* result of the first run
ConfirmFirstRun(corrections, outcome) ==
    /\ first_run # NoRun
    /\ first_run.phase = "first"
    /\ \E out \in {apply_user_corrections(Memory, TRUE, corrections,
                                          last_result, outcome)} :
          /\ SetMemory(out.m)
          /\ last_result' = out.result
    /\ first_run' = [first_run EXCEPT !.phase = "confirmed"]
    /\ UNCHANGED loaded
    /\ UNCHANGED repeat_frame

\* process_image of the same image with the same hint, second run
SecondRun(needs_confirmation, outcome) ==
    /\ first_run # NoRun
    /\ first_run.phase \in {"first", "confirmed"}
    /\ needs_confirmation \in MayNeedConfirmation(first_run.doc)
    /\ \E out \in {process_image(Memory, TRUE, first_run.doc,
                                 first_run.document_hint,
                                 needs_confirmation, outcome)} :
          /\ SetMemory(out.m)
          /\ last_result' = out.result
          /\ first_run' = [phase |-> "second", doc |-> first_run.doc,
                           document_hint |-> first_run.document_hint,
                           confidence |-> first_run.confidence,
                           confirmed |-> first_run.phase = "confirmed",
                           second_confidence |-> out.result.confidence]
    /\ UNCHANGED loaded
    /\ UNCHANGED repeat_frame

NextRepeat ==
    \/ \E doc \in Documents, document_hint \in DocumentHints,
          needs_confirmation \in BOOLEAN, outcome \in SaveOutcomes :
            FirstRun(doc, document_hint, needs_confirmation, outcome)
    \/ \E corrections \in CorrectionDicts, outcome \in SaveOutcomes :
            ConfirmFirstRun(corrections, outcome)
    \/ \E needs_confirmation \in BOOLEAN, outcome \in SaveOutcomes :
            SecondRun(needs_confirmation, outcome)

SpecRepeat == Init /\ [][NextRepeat]_vars

\* C11: when process_image has run twice in succession on one input with
\* learning enabled, with or without a user confirmation in between, the
\* confidence of the second run is at least that of the first
C11_SecondRunNotLessConfident ==
    (first_run # NoRun /\ first_run.phase = "second")
    => first_run.second_confidence >= first_run.confidence

(***************************************************************************)
(* Part 5: process_image step by step (enterprise_intelligence.py          *)
(* 219-355).  Every step first records its name in self.processing_steps    *)
(* and then runs; it may raise, and the except clauses of process_image     *)
(* turn what was raised into the result of _error_result.                   *)
(***************************************************************************)
\* process_image calls made in one behaviour
MaxRuns == 2

\* str.strip(): leading and trailing whitespace removed
Whitespace == {" ", "\n", "\t"}

RECURSIVE lstrip(_)
lstrip(text) ==
    IF text # <<>> /\ Head(text) \in Whitespace THEN lstrip(Tail(text))
    ELSE text

RECURSIVE rstrip(_)
rstrip(text) ==
    IF text # <<>> /\ text[Len(text)] \in Whitespace
    THEN rstrip(SubSeq(text, 1, Len(text) - 1))
    ELSE text

\* a strip() that removes spaces only
strip_spaces(text) == Strip(text)

strip(text) == rstrip(lstrip(text))

\* images the OCR passes return no text of, or blanks only
NoText == [D1 EXCEPT !.primary_text = <<>>]

BlankText == [D2 EXCEPT !.primary_text = <<" ", "\n", "\t">>]

Images == Documents \cup {NoText, BlankText}

\* what a step may raise
Raises == {"none", "Exception"}

\* str(e), and the message of the FileNotFoundError clause
MessageOf(raised) ==
    IF raised = "FileNotFoundError" THEN "File not found" ELSE "error"

\* _empty_result
empty_result(processing_steps, message) ==
    [success |-> FALSE,
     error |-> Str(message),
     raw_text |-> <<>>,
     cleaned_text |-> <<>>,
     document_type |-> "unknown",
     extracted_fields |-> <<>>,
     consensus_details |-> <<>>,
     confidence |-> 0,
     confidence_level |-> "unreliable",
     needs_confirmation |-> TRUE,
     memory_match_found |-> FALSE,
     memory_match_score |-> 0,
     processing_steps |-> processing_steps]

\* an _error_result that does not copy the processing steps
error_result_without_steps(processing_steps, error_message) ==
    [success |-> FALSE,
     error |-> Str(error_message),
     raw_text |-> <<>>,
     cleaned_text |-> <<>>,
     document_type |-> "unknown",
     extracted_fields |-> <<>>,
     consensus_details |-> <<>>,
     confidence |-> 0,
     confidence_level |-> "unreliable",
     needs_confirmation |-> FALSE,
     memory_match_found |-> FALSE,
     memory_match_score |-> 0,
     processing_steps |-> <<>>]

\* _error_result
error_result(processing_steps, error_message) ==
    [success |-> FALSE,
     error |-> Str(error_message),
     raw_text |-> <<>>,
     cleaned_text |-> <<>>,
     document_type |-> "unknown",
     extracted_fields |-> <<>>,
     consensus_details |-> <<>>,
     confidence |-> 0,
     confidence_level |-> "unreliable",
     needs_confirmation |-> FALSE,
     memory_match_found |-> FALSE,
     memory_match_score |-> 0,
     processing_steps |-> processing_steps]

\* (the locals of the call in flight are None until they are assigned;
\* run.collected names the assigned ones among the data a result returns)
\* what a step of process_image leaves alone, the memory apart
pipeline_frame == <<consensus_vars, last_call, first_run, calls, concurrent_vars,
      applied>>

\* the variables of the memory
memory_state == <<file, loaded, entries, vendor_index, pruned>>

\* self.processing_steps.append(step)
Enter(step) == Append(run.processing_steps, step)

\* the step has raised: the except clause returns _error_result
Fails(processing_steps, raised) ==
    /\ run' = [run EXCEPT !.pc = "done", !.processing_steps = processing_steps,
                          !.raised = raised]
    /\ last_result' = error_result(processing_steps, MessageOf(raised))

\* process_document_enterprise: the engine is constructed (with learning
\* enabled it takes the global memory) and process_image starts with
\* self.processing_steps = []
StartProcess(enable_learning, doc, document_hint) ==
    /\ calls < MaxRuns
    /\ calls' = calls + 1
    /\ run.pc \in {"idle", "done"}
    /\ IF enable_learning
       THEN /\ loaded' = TRUE
            /\ entries' = get_learning_memory.entries
            /\ vendor_index' = get_learning_memory.vendor_index
       ELSE UNCHANGED <<loaded, entries, vendor_index>>
    /\ pruned' = 0
    /\ run' = [pc |-> "preprocess", enable_learning |-> enable_learning,
               doc |-> doc, document_hint |-> document_hint,
               processing_steps |-> <<>>, raised |-> "none",
               collected |-> {}, raw_text |-> None, cleaned_text |-> None,
               memory_result |-> None, consensus_results |-> None,
               extracted_fields |-> None, document_type |-> None,
               confidence_result |-> None, needs_confirmation |-> None,
               at_start |-> [entries |-> entries', vendor_index |-> vendor_index',
                             file |-> file]]
    /\ last_result' = NoResult
    /\ UNCHANGED file
    /\ UNCHANGED <<consensus_vars, last_call, first_run, concurrent_vars, applied>>

\* step 1: _preprocess opens the image
Preprocess(raised) ==
    /\ run.pc = "preprocess"
    /\ IF raised # "none"
       THEN Fails(Enter("preprocess"), raised)
       ELSE /\ run' = [run EXCEPT !.pc = "ocr",
                                  !.processing_steps = Enter("preprocess")]
            /\ UNCHANGED last_result
    /\ UNCHANGED memory_state
    /\ UNCHANGED pipeline_frame

\* step 2: _run_ocr, and the exit when the text is empty after strip()
Ocr(raised) ==
    /\ run.pc = "ocr"
    /\ IF raised # "none"
       THEN Fails(Enter("ocr"), raised)
       ELSE IF strip(run.doc.primary_text) = <<>>
       THEN /\ run' = [run EXCEPT !.pc = "done",
                                  !.processing_steps = Enter("ocr"),
                                  !.collected = {"raw_text"},
                                  !.raw_text = run.doc.primary_text]
            /\ last_result' = empty_result(Enter("ocr"), "No text extracted")
       ELSE /\ run' = [run EXCEPT !.pc = "clean",
                                  !.processing_steps = Enter("ocr"),
                                  !.collected = {"raw_text"},
                                  !.raw_text = run.doc.primary_text]
            /\ UNCHANGED last_result
    /\ UNCHANGED memory_state
    /\ UNCHANGED pipeline_frame

\* step 3: _clean_text
Clean(raised) ==
    /\ run.pc = "clean"
    /\ IF raised # "none"
       THEN Fails(Enter("clean"), raised)
       ELSE /\ run' = [run EXCEPT !.pc = "layout",
                                  !.processing_steps = Enter("clean"),
                                  !.collected = @ \cup {"cleaned_text"},
                                  !.cleaned_text = run.doc.text]
            /\ UNCHANGED last_result
    /\ UNCHANGED memory_state
    /\ UNCHANGED pipeline_frame

\* step 4: _analyze_layout
Layout(raised) ==
    /\ run.pc = "layout"
    /\ IF raised # "none"
       THEN Fails(Enter("layout"), raised)
       ELSE /\ run' = [run EXCEPT !.pc = "memory",
                                  !.processing_steps = Enter("layout")]
            /\ UNCHANGED last_result
    /\ UNCHANGED memory_state
    /\ UNCHANGED pipeline_frame

\* step 5: _apply_memory
MemoryLookup(raised) ==
    /\ run.pc = "memory"
    /\ IF raised # "none"
       THEN Fails(Enter("memory"), raised)
       ELSE /\ run' = [run EXCEPT
                          !.pc = "consensus",
                          !.processing_steps = Enter("memory"),
                          !.collected = @ \cup {"memory_result"},
                          !.memory_result =
                              apply_memory(Memory, run.enable_learning,
                                           run.cleaned_text, run.document_hint)]
            /\ UNCHANGED last_result
    /\ UNCHANGED memory_state
    /\ UNCHANGED pipeline_frame

\* step 6: _extract_with_consensus, _build_fields_from_consensus,
\* _classify_document
ConsensusExtract(raised) ==
    /\ run.pc = "consensus"
    /\ IF raised # "none"
       THEN Fails(Enter("consensus"), raised)
       ELSE /\ run' = [run EXCEPT
                          !.pc = "confidence",
                          !.processing_steps = Enter("consensus"),
                          !.collected = @ \cup {"consensus_results",
                                                "extracted_fields"},
                          !.consensus_results = run.doc.consensus,
                          !.extracted_fields = build_fields_from_consensus(run.doc),
                          !.document_type = run.doc.document_type]
            /\ UNCHANGED last_result
    /\ UNCHANGED memory_state
    /\ UNCHANGED pipeline_frame

\* step 7: _compute_confidence
Confidence(raised) ==
    /\ run.pc = "confidence"
    /\ IF raised # "none"
       THEN Fails(Enter("confidence"), raised)
       ELSE /\ run' = [run EXCEPT
                          !.pc = "confirmation",
                          !.processing_steps = Enter("confidence"),
                          !.confidence_result =
                              ConfidenceTable[run.doc,
                                              run.memory_result.match_score]]
            /\ UNCHANGED last_result
    /\ UNCHANGED memory_state
    /\ UNCHANGED pipeline_frame

\* step 8: _evaluate_confirmation
Confirmation(raised, needs_confirmation) ==
    /\ run.pc = "confirmation"
    /\ needs_confirmation \in MayNeedConfirmation(run.doc)
    /\ IF raised # "none"
       THEN Fails(Enter("confirmation"), raised)
       ELSE /\ run' = [run EXCEPT
                          !.pc = IF run.enable_learning THEN "learn"
                                 ELSE "build",
                          !.processing_steps = Enter("confirmation"),
                          !.needs_confirmation = needs_confirmation]
            /\ UNCHANGED last_result
    /\ UNCHANGED memory_state
    /\ UNCHANGED pipeline_frame

\* step 9, with learning enabled: _update_memory
Learn(raised, outcome) ==
    /\ run.pc = "learn"
    /\ IF raised # "none"
       THEN /\ Fails(Enter("learn"), raised)
            /\ UNCHANGED memory_state
       ELSE /\ run' = [run EXCEPT !.pc = "build",
                                  !.processing_steps = Enter("learn")]
            /\ \E m \in {update_memory(Memory, run.cleaned_text,
                                       run.document_type, run.extracted_fields,
                                       run.needs_confirmation, outcome)} :
                    SetMemory(m)
            /\ UNCHANGED <<loaded, last_result>>
    /\ UNCHANGED pipeline_frame

\* return self._build_result(...)
BuildResult(raised) ==
    /\ run.pc = "build"
    /\ IF raised # "none"
       THEN Fails(run.processing_steps, raised)
       ELSE /\ run' = [run EXCEPT !.pc = "done"]
            /\ last_result' =
                  build_result(run.doc, run.document_type, run.extracted_fields,
                               run.confidence_result, run.needs_confirmation,
                               run.memory_result, run.processing_steps)
    /\ UNCHANGED memory_state
    /\ UNCHANGED pipeline_frame

NextPipeline ==
    \/ \E enable_learning \in BOOLEAN, doc \in Images,
          document_hint \in DocumentHints :
            StartProcess(enable_learning, doc, document_hint)
    \/ \E raised \in Raises \cup {"FileNotFoundError"} : Preprocess(raised)
    \/ \E raised \in Raises : Ocr(raised)
    \/ \E raised \in Raises : Clean(raised)
    \/ \E raised \in Raises : Layout(raised)
    \/ \E raised \in Raises : MemoryLookup(raised)
    \/ \E raised \in Raises : ConsensusExtract(raised)
    \/ \E raised \in Raises : Confidence(raised)
    \/ \E raised \in Raises, needs_confirmation \in BOOLEAN :
            Confirmation(raised, needs_confirmation)
    \/ \E raised \in Raises, outcome \in SaveOutcomes : Learn(raised, outcome)
    \/ \E raised \in Raises : BuildResult(raised)

SpecPipeline == Init /\ [][NextPipeline]_vars

\* the fixed order of the states of process_image
FixedOrder ==
    <<"preprocess", "ocr", "clean", "layout", "memory", "consensus",
      "confidence", "confirmation", "learn">>

IsPrefix(s, t) == Len(s) <= Len(t) /\ SubSeq(t, 1, Len(s)) = s

\* the states visited when process_image is about to run the state pc
VisitedBefore(pc) ==
    IF pc = "build"
    THEN SubSeq(FixedOrder, 1, IF run.enable_learning THEN 9 ELSE 8)
    ELSE LET k == CHOOSE k \in 1..Len(FixedOrder) : FixedOrder[k] = pc
         IN  SubSeq(FixedOrder, 1, k - 1)

\* C18: in every run of process_image the recorded list of visited states
\* is a prefix of the fixed order preprocess, ocr, clean, layout, memory,
\* consensus, confidence, confirmation, learn: while the run is in flight
\* it is exactly the states before the one about to run, and the result
\* returned, a failed one included, carries the states reached
C18_StatesInOrder ==
    run.pc # "idle" =>
        /\ IsPrefix(run.processing_steps, FixedOrder)
        /\ run.pc # "done" => run.processing_steps = VisitedBefore(run.pc)
        /\ run.pc = "done" =>
              /\ last_result.processing_steps = run.processing_steps
              /\ run.processing_steps # <<>>

\* a run has failed in the memory lookup or later and has returned
C18_Witness ==
    /\ run.pc = "done"
    /\ run.raised # "none"
    /\ ~last_result.success
    /\ Len(last_result.processing_steps) >= 5

\* the text is empty or whitespace only
IsBlank(text) == \A i \in 1..Len(text) : text[i] \in Whitespace

\* C19: when the OCR has returned empty or whitespace-only text,
\* process_image returns right after the ocr state: the result lists no
\* later state, has no extracted fields, level "unreliable",
\* needs_confirmation = true and success = false, and the memory has been
\* neither looked up nor changed since the run started
C19_EmptyTextExit ==
    (/\ run.pc = "done"
     /\ "raw_text" \in run.collected
     /\ IsBlank(run.raw_text))
    => /\ last_result.processing_steps = <<"preprocess", "ocr">>
       /\ last_result.extracted_fields = <<>>
       /\ last_result.confidence_level = "unreliable"
       /\ last_result.needs_confirmation
       /\ ~last_result.success
       /\ "memory_result" \notin run.collected
       /\ entries = run.at_start.entries
       /\ vendor_index = run.at_start.vendor_index
       /\ file = run.at_start.file

\* a run with learning enabled on a memory that holds entries has returned
\* on a text of blanks
C19_Witness ==
    /\ run.pc = "done"
    /\ run.enable_learning
    /\ "raw_text" \in run.collected
    /\ run.raw_text = BlankText.primary_text
    /\ entries # <<>>
    /\ ~last_result.success

\* C20: an error raised in a state after the OCR has produced text is
\* returned as a failed result (success = false, error set) that holds the
\* partial data collected before the failure: the raw text, and the cleaned
\* text, the fields and the consensus details when they were built
C20_FailedKeepsPartialData ==
    (/\ run.pc = "done"
     /\ run.raised # "none"
     /\ "raw_text" \in run.collected)
    => /\ ~last_result.success
       /\ last_result.error # None
       /\ last_result.raw_text = run.raw_text
       /\ "cleaned_text" \in run.collected
          => last_result.cleaned_text = run.cleaned_text
       /\ "extracted_fields" \in run.collected
          => last_result.extracted_fields = run.extracted_fields
       /\ "consensus_results" \in run.collected
          => last_result.consensus_details = run.consensus_results

(***************************************************************************)
(* Part 6: calls made on the constructed LearningMemory by several threads *)
(* of the hosting service at once (learning_memory.py).  The code takes no  *)
(* lock, so a thread may be switched out between any two reads or writes of *)
(* the shared dicts and entry objects.  A step below is one statement of    *)
(* the method, with  x += 1  taken as its read and its write; every         *)
(* interleaving of the steps is one the interpreter can produce.            *)
(* An entry is an object: heap holds the objects and refs the ones          *)
(* self.entries refers to, in insertion order; entries is kept equal to     *)
(* the dict read by value.                                                  *)
(***************************************************************************)
\* threads calling the memory at once
MaxThreads == 2

Threads == 1..MaxThreads

\* the calls a thread may make
ConcurrentCalls ==
    {[op |-> "learn_from_document", fingerprint |-> fingerprint,
      user_confirmed |-> user_confirmed, outcome |-> "ok"] :
        fingerprint \in MemoryFingerprints, user_confirmed \in BOOLEAN}
    \cup {[op |-> "record_correction", fingerprint |-> fingerprint,
           field_name |-> "vendor", original_value |-> Str(<<"A">>),
           corrected_value |-> Str(<<"a">>), outcome |-> "ok"] :
            fingerprint \in MemoryFingerprints}
    \cup {[op |-> "find_match", fingerprint |-> fingerprint] :
            fingerprint \in MemoryFingerprints}

\* the value find_match returns when nothing matches, and its locals before
\* they are assigned; times_seen and times_confirmed are the numbers of the
\* explanation
no_match_result ==
    [found_match |-> FALSE, match_score |-> 0, entry_key |-> <<>>,
     confidence_boost |-> 0, field_hints |-> <<>>,
     times_seen |-> 0, times_confirmed |-> 0]

\* _save's local before it is assigned
NoData == [state |-> "none", entries |-> <<>>]

\* a thread that has made no call: entry and existing are references (0 is
\* None), value is the operand  x += 1  has read
Idle ==
    [pc |-> "idle", call |-> NoCall, entry |-> 0, existing |-> 0, value |-> 0,
     keep |-> <<>>, removed |-> {}, data |-> NoData,
     result |-> no_match_result, raised |-> "none"]

\* the dict self.entries read by value
Deref(h, r) == [i \in 1..Len(r) |-> h[r[i]]]

\* self.entries[hash_key]
Lookup(h, r, hash_key) ==
    r[CHOOSE i \in 1..Len(r) : KeyOf(h[r[i]]) = hash_key]

\* self.entries[hash_key] = entry: a key the dict holds keeps its place
Store(h, r, hash_key, id) ==
    IF \E i \in 1..Len(r) : KeyOf(h[r[i]]) = hash_key
    THEN [i \in 1..Len(r) |-> IF KeyOf(h[r[i]]) = hash_key THEN id ELSE r[i]]
    ELSE Append(r, id)

\* get_learning_memory() has been called: the instance is constructed and
\* loaded, no call is in flight
InitConcurrent ==
    /\ field_name = "idle"
    /\ next_detector = 1
    /\ detector_results = <<>>
    /\ consensus = NotBuilt
    /\ file \in InitialFiles
    /\ loaded = TRUE
    /\ entries = load(file).entries
    /\ vendor_index = load(file).vendor_index
    /\ last_result = NoResult
    /\ pruned = 0
    /\ calls = 0
    /\ last_call = NoCall
    /\ first_run = NoRun
    /\ run = NoProcess
    /\ heap = entries
    /\ refs = [i \in 1..Len(entries) |-> i]
    /\ threads = [t \in Threads |-> Idle]
    /\ at_start = [entries |-> entries, vendor_index |-> vendor_index,
                   file |-> file, pruned |-> 0]
    /\ applied = NotApplied

\* what a step of a thread leaves alone
concurrent_frame ==
    <<consensus_vars, loaded, last_result, calls, last_call, first_run, run,
      at_start, applied>>

objects == <<heap, refs, entries>>

hash_key(t) == threads[t].call.fingerprint.fingerprint_hash

\* the thread enters the method
BeginCall(t, call) ==
    /\ threads[t].pc = "idle"
    /\ threads' = [threads EXCEPT
            ![t].call = call,
            ![t].pc = IF call.op = "learn_from_document" THEN "learn_test"
                      ELSE IF call.op = "record_correction" THEN "correct_test"
                      ELSE "find_test"]
    /\ UNCHANGED <<objects, vendor_index, file, pruned>>
    /\ UNCHANGED concurrent_frame

(***************************************************************************)
(* learn_from_document                                                      *)
(***************************************************************************)
\* if hash_key in self.entries
LearnTest(t) ==
    /\ threads[t].pc = "learn_test"
    /\ threads' = [threads EXCEPT
            ![t].pc = IF HasEntry(entries, hash_key(t))
                      THEN "learn_get" ELSE "learn_new"]
    /\ UNCHANGED <<objects, vendor_index, file, pruned>>
    /\ UNCHANGED concurrent_frame

\* entry = self.entries[hash_key]: KeyError when the key has gone since
LearnGet(t) ==
    /\ threads[t].pc = "learn_get"
    /\ threads' = [threads EXCEPT ![t] =
            IF HasEntry(entries, hash_key(t))
            THEN [@ EXCEPT !.entry = Lookup(heap, refs, hash_key(t)),
                           !.pc = "seen_read"]
            ELSE [@ EXCEPT !.raised = "KeyError", !.pc = "done"]]
    /\ UNCHANGED <<objects, vendor_index, file, pruned>>
    /\ UNCHANGED concurrent_frame

\* entry.times_seen += 1: the read
ReadTimesSeen(t) ==
    /\ threads[t].pc = "seen_read"
    /\ threads' = [threads EXCEPT
            ![t].value = heap[threads[t].entry].times_seen,
            ![t].pc = "seen_write"]
    /\ UNCHANGED <<objects, vendor_index, file, pruned>>
    /\ UNCHANGED concurrent_frame

\* entry.times_seen += 1: the write
WriteTimesSeen(t) ==
    /\ threads[t].pc = "seen_write"
    /\ heap' = [heap EXCEPT
            ![threads[t].entry].times_seen = threads[t].value + 1]
    /\ entries' = Deref(heap', refs)
    /\ threads' = [threads EXCEPT
            ![t].pc = IF threads[t].call.user_confirmed
                      THEN "confirmed_read" ELSE "cap_test"]
    /\ UNCHANGED <<refs, vendor_index, file, pruned>>
    /\ UNCHANGED concurrent_frame

\* entry.times_confirmed += 1: the read
ReadTimesConfirmed(t) ==
    /\ threads[t].pc = "confirmed_read"
    /\ threads' = [threads EXCEPT
            ![t].value = heap[threads[t].entry].times_confirmed,
            ![t].pc = "confirmed_write"]
    /\ UNCHANGED <<objects, vendor_index, file, pruned>>
    /\ UNCHANGED concurrent_frame

\* entry.times_confirmed += 1: the write
WriteTimesConfirmed(t) ==
    /\ threads[t].pc = "confirmed_write"
    /\ heap' = [heap EXCEPT
            ![threads[t].entry].times_confirmed = threads[t].value + 1]
    /\ entries' = Deref(heap', refs)
    /\ threads' = [threads EXCEPT ![t].pc = "cap_test"]
    /\ UNCHANGED <<refs, vendor_index, file, pruned>>
    /\ UNCHANGED concurrent_frame

\* entry = LearningMemoryEntry(...); self.entries[hash_key] = entry
LearnNew(t) ==
    /\ threads[t].pc = "learn_new"
    /\ heap' = Append(heap,
            [fingerprint |-> threads[t].call.fingerprint,
             field_positions |-> <<>>,
             corrections |-> <<>>,
             vendor_rules |-> <<>>,
             times_seen |-> 1,
             times_confirmed |->
                 IF threads[t].call.user_confirmed THEN 1 ELSE 0])
    /\ refs' = Store(heap', refs, hash_key(t), Len(heap'))
    /\ entries' = Deref(heap', refs')
    /\ threads' = [threads EXCEPT
            ![t].pc = IF Truthy(threads[t].call.fingerprint.vendor_name)
                      THEN "index_vendor" ELSE "cap_test"]
    /\ UNCHANGED <<vendor_index, file, pruned>>
    /\ UNCHANGED concurrent_frame

\* the update of the vendor index: the list is created if the vendor has
\* none, and the hash appended if the list does not hold it
IndexVendor(t) ==
    /\ threads[t].pc = "index_vendor"
    /\ vendor_index' =
           IndexAdd(vendor_index,
                    Lower(threads[t].call.fingerprint.vendor_name.v),
                    hash_key(t), TRUE)
    /\ threads' = [threads EXCEPT ![t].pc = "cap_test"]
    /\ UNCHANGED <<objects, file, pruned>>
    /\ UNCHANGED concurrent_frame

\* if len(self.entries) > self.MAX_ENTRIES
CapTest(t) ==
    /\ threads[t].pc = "cap_test"
    /\ threads' = [threads EXCEPT
            ![t].pc = IF Len(entries) > MAX_ENTRIES
                      THEN "prune_sort" ELSE "save_dump"]
    /\ UNCHANGED <<objects, vendor_index, file, pruned>>
    /\ UNCHANGED concurrent_frame

(***************************************************************************)
(* _prune_old_entries                                                       *)
(***************************************************************************)
\* the early return; sorted_entries = sorted(...); keep = dict(...);
\* removed = set(self.entries.keys()) - set(keep.keys())
PruneSort(t) ==
    /\ threads[t].pc = "prune_sort"
    /\ threads' = [threads EXCEPT ![t] =
            IF Len(entries) <= MAX_ENTRIES
            THEN [@ EXCEPT !.pc = "save_dump"]
            ELSE LET sorted_entries == SortByUtilityDesc(entries, <<>>)
                     keep == SubSeq(sorted_entries, 1, MAX_ENTRIES)
                 IN  [@ EXCEPT
                        !.keep = [i \in 1..MAX_ENTRIES |->
                                    Lookup(heap, refs, KeyOf(keep[i]))],
                        !.removed = Keys(entries) \ Keys(keep),
                        !.pc = "prune_rebind"]]
    /\ UNCHANGED <<objects, vendor_index, file, pruned>>
    /\ UNCHANGED concurrent_frame

\* self.entries = keep
PruneRebind(t) ==
    /\ threads[t].pc = "prune_rebind"
    /\ refs' = threads[t].keep
    /\ entries' = Deref(heap, refs')
    /\ threads' = [threads EXCEPT ![t].pc = "prune_index"]
    /\ UNCHANGED <<heap, vendor_index, file, pruned>>
    /\ UNCHANGED concurrent_frame

\* the loop over self.vendor_index.items(), and the log line
PruneIndex(t) ==
    /\ threads[t].pc = "prune_index"
    /\ vendor_index' =
           [v \in DOMAIN vendor_index |->
               Filter(vendor_index[v],
                      SeqToSet(vendor_index[v]) \ threads[t].removed)]
    /\ pruned' = Cardinality(threads[t].removed)
    /\ threads' = [threads EXCEPT ![t].pc = "save_dump"]
    /\ UNCHANGED <<objects, file>>
    /\ UNCHANGED concurrent_frame

(***************************************************************************)
(* _save                                                                    *)
(***************************************************************************)
\* data = {..., 'entries': {k: v.to_dict() for k, v in self.entries.items()}}
SaveDump(t) ==
    /\ threads[t].pc = "save_dump"
    /\ threads' = [threads EXCEPT ![t].data = SavedFile(entries),
                                  ![t].pc = "save_open"]
    /\ UNCHANGED <<objects, vendor_index, file, pruned>>
    /\ UNCHANGED concurrent_frame

\* open(self.storage_path, 'w'): the file is truncated
SaveOpen(t) ==
    /\ threads[t].pc = "save_open"
    /\ file' = CorruptFile
    /\ threads' = [threads EXCEPT ![t].pc = "save_write"]
    /\ UNCHANGED <<objects, vendor_index, pruned>>
    /\ UNCHANGED concurrent_frame

\* json.dump(data, f) and the close: when another thread holds the file
\* open for writing too, the bytes of the two dumps may mix
SaveWrite(t) ==
    /\ threads[t].pc = "save_write"
    /\ \E written \in {threads[t].data} \cup
                      (IF \E u \in Threads \ {t} : threads[u].pc = "save_write"
                       THEN {CorruptFile} ELSE {}) :
            file' = written
    /\ threads' = [threads EXCEPT ![t].pc = "done"]
    /\ UNCHANGED <<objects, vendor_index, pruned>>
    /\ UNCHANGED concurrent_frame

(***************************************************************************)
(* record_correction                                                        *)
(***************************************************************************)
\* if hash_key in self.entries (otherwise the method returns)
CorrectTest(t) ==
    /\ threads[t].pc = "correct_test"
    /\ threads' = [threads EXCEPT
            ![t].pc = IF HasEntry(entries, hash_key(t))
                      THEN "correct_get" ELSE "done"]
    /\ UNCHANGED <<objects, vendor_index, file, pruned>>
    /\ UNCHANGED concurrent_frame

\* entry = self.entries[hash_key]
CorrectGet(t) ==
    /\ threads[t].pc = "correct_get"
    /\ threads' = [threads EXCEPT ![t] =
            IF HasEntry(entries, hash_key(t))
            THEN [@ EXCEPT !.entry = Lookup(heap, refs, hash_key(t)),
                           !.pc = "correct_search"]
            ELSE [@ EXCEPT !.raised = "KeyError", !.pc = "done"]]
    /\ UNCHANGED <<objects, vendor_index, file, pruned>>
    /\ UNCHANGED concurrent_frame

\* the loop over entry.corrections that sets existing
CorrectSearch(t) ==
    /\ threads[t].pc = "correct_search"
    /\ LET corrections == heap[threads[t].entry].corrections
           same == {k \in 1..Len(corrections) :
                       /\ corrections[k].field_name = threads[t].call.field_name
                       /\ PyStr(corrections[k].original_value)
                            = PyStr(threads[t].call.original_value)}
       IN  threads' = [threads EXCEPT ![t] =
               IF same # {}
               THEN [@ EXCEPT
                       !.existing = CHOOSE k \in same : \A j \in same : k <= j,
                       !.pc = "correct_value"]
               ELSE [@ EXCEPT !.pc = "correct_append"]]
    /\ UNCHANGED <<objects, vendor_index, file, pruned>>
    /\ UNCHANGED concurrent_frame

\* existing.corrected_value = corrected_value, and the read of
\* existing.correction_count += 1
CorrectValue(t) ==
    /\ threads[t].pc = "correct_value"
    /\ heap' = [heap EXCEPT
            ![threads[t].entry].corrections[threads[t].existing].corrected_value
                = threads[t].call.corrected_value]
    /\ entries' = Deref(heap', refs)
    /\ threads' = [threads EXCEPT
            ![t].value = heap[threads[t].entry]
                            .corrections[threads[t].existing].correction_count,
            ![t].pc = "count_write"]
    /\ UNCHANGED <<refs, vendor_index, file, pruned>>
    /\ UNCHANGED concurrent_frame

\* existing.correction_count += 1: the write
WriteCorrectionCount(t) ==
    /\ threads[t].pc = "count_write"
    /\ heap' = [heap EXCEPT
            ![threads[t].entry].corrections[threads[t].existing].correction_count
                = threads[t].value + 1]
    /\ entries' = Deref(heap', refs)
    /\ threads' = [threads EXCEPT ![t].pc = "save_dump"]
    /\ UNCHANGED <<refs, vendor_index, file, pruned>>
    /\ UNCHANGED concurrent_frame

\* entry.corrections.append(UserCorrection(...))
CorrectAppend(t) ==
    /\ threads[t].pc = "correct_append"
    /\ heap' = [heap EXCEPT
            ![threads[t].entry].corrections = Append(@,
                [field_name |-> threads[t].call.field_name,
                 original_value |-> threads[t].call.original_value,
                 corrected_value |-> threads[t].call.corrected_value,
                 document_type |-> threads[t].call.fingerprint.document_type,
                 vendor_name |-> threads[t].call.fingerprint.vendor_name,
                 correction_count |-> 1])]
    /\ entries' = Deref(heap', refs)
    /\ threads' = [threads EXCEPT ![t].pc = "save_dump"]
    /\ UNCHANGED <<refs, vendor_index, file, pruned>>
    /\ UNCHANGED concurrent_frame

(***************************************************************************)
(* find_match                                                               *)
(***************************************************************************)
\* if fingerprint.fingerprint_hash in self.entries
FindTest(t) ==
    /\ threads[t].pc = "find_test"
    /\ threads' = [threads EXCEPT
            ![t].pc = IF HasEntry(entries, hash_key(t))
                      THEN "find_get" ELSE "find_scan"]
    /\ UNCHANGED <<objects, vendor_index, file, pruned>>
    /\ UNCHANGED concurrent_frame

\* entry = self.entries[fingerprint.fingerprint_hash]; best_score = 1.0
FindGet(t) ==
    /\ threads[t].pc = "find_get"
    /\ threads' = [threads EXCEPT ![t] =
            IF HasEntry(entries, hash_key(t))
            THEN [@ EXCEPT !.entry = Lookup(heap, refs, hash_key(t)),
                           !.result.match_score = 100,
                           !.pc = "find_boost"]
            ELSE [@ EXCEPT !.raised = "KeyError", !.pc = "done"]]
    /\ UNCHANGED <<objects, vendor_index, file, pruned>>
    /\ UNCHANGED concurrent_frame

\* the else branch: the candidates of the vendor index, then the entries
\* similar enough, and the best of them; the test of the best score
best_candidate(ents, index, fingerprint) ==
    LET by_vendor ==
            IF Truthy(fingerprint.vendor_name)
               /\ Lower(fingerprint.vendor_name.v) \in DOMAIN index
            THEN LET hashes == index[Lower(fingerprint.vendor_name.v)]
                     present == Filter(hashes, Keys(ents))
                 IN  [k \in 1..Len(present) |-> GetEntry(ents, present[k])]
            ELSE <<>>
        similar ==
            Filter(ents,
                   {e \in SeqToSet(ents) :
                        /\ e \notin SeqToSet(by_vendor)
                        /\ similarity_score(fingerprint, e.fingerprint)
                             >= MATCH_THRESHOLD})
    IN  BestOf(by_vendor \o similar, fingerprint, [score |-> 0, entry |-> <<>>])

FindScan(t) ==
    /\ threads[t].pc = "find_scan"
    /\ LET best == best_candidate(entries, vendor_index,
                                  threads[t].call.fingerprint)
       IN  threads' = [threads EXCEPT ![t] =
               IF best.entry # <<>> /\ best.score >= MATCH_THRESHOLD
               THEN [@ EXCEPT
                       !.entry = Lookup(heap, refs, KeyOf(best.entry[1])),
                       !.result.match_score = best.score,
                       !.pc = "find_boost"]
               ELSE [@ EXCEPT !.pc = "done"]]
    /\ UNCHANGED <<objects, vendor_index, file, pruned>>
    /\ UNCHANGED concurrent_frame

\* field_hints of an entry: a hint per field position, completed by the
\* vendor rules
field_hints(entry) ==
    [positions |-> entry.field_positions,
     rules |-> [k \in 1..Len(entry.vendor_rules) |->
                  [field_name |-> entry.vendor_rules[k].field_name,
                   extraction_hint |-> entry.vendor_rules[k].extraction_hint,
                   expected_format |-> entry.vendor_rules[k].expected_format]]]

\* boost = ..., which reads best_match.times_confirmed (in
\* ten-thousandths), and the two loops that fill field_hints
FindBoost(t) ==
    /\ threads[t].pc = "find_boost"
    /\ threads' = [threads EXCEPT
            ![t].result.confidence_boost =
                IF threads[t].result.match_score >= 95
                THEN 100 * (IF heap[threads[t].entry].times_confirmed > 0
                            THEN CONFIRMED_PATTERN_BOOST
                            ELSE KNOWN_PATTERN_BOOST)
                ELSE KNOWN_PATTERN_BOOST * threads[t].result.match_score,
            ![t].result.field_hints = field_hints(heap[threads[t].entry]),
            ![t].pc = "find_explain"]
    /\ UNCHANGED <<objects, vendor_index, file, pruned>>
    /\ UNCHANGED concurrent_frame

\* explanation = f"... (seen {best_match.times_seen} times, confirmed
\* {best_match.times_confirmed} times)", and the return
FindExplain(t) ==
    /\ threads[t].pc = "find_explain"
    /\ threads' = [threads EXCEPT
            ![t].result.times_seen = heap[threads[t].entry].times_seen,
            ![t].result.times_confirmed = heap[threads[t].entry].times_confirmed,
            ![t].result.entry_key = KeyOf(heap[threads[t].entry]),
            ![t].result.found_match = TRUE,
            ![t].pc = "done"]
    /\ UNCHANGED <<objects, vendor_index, file, pruned>>
    /\ UNCHANGED concurrent_frame

NextConcurrent ==
    \/ \E t \in Threads, call \in ConcurrentCalls : BeginCall(t, call)
    \/ \E t \in Threads : LearnTest(t)
    \/ \E t \in Threads : LearnGet(t)
    \/ \E t \in Threads : ReadTimesSeen(t)
    \/ \E t \in Threads : WriteTimesSeen(t)
    \/ \E t \in Threads : ReadTimesConfirmed(t)
    \/ \E t \in Threads : WriteTimesConfirmed(t)
    \/ \E t \in Threads : LearnNew(t)
    \/ \E t \in Threads : IndexVendor(t)
    \/ \E t \in Threads : CapTest(t)
    \/ \E t \in Threads : PruneSort(t)
    \/ \E t \in Threads : PruneRebind(t)
    \/ \E t \in Threads : PruneIndex(t)
    \/ \E t \in Threads : SaveDump(t)
    \/ \E t \in Threads : SaveOpen(t)
    \/ \E t \in Threads : SaveWrite(t)
    \/ \E t \in Threads : CorrectTest(t)
    \/ \E t \in Threads : CorrectGet(t)
    \/ \E t \in Threads : CorrectSearch(t)
    \/ \E t \in Threads : CorrectValue(t)
    \/ \E t \in Threads : WriteCorrectionCount(t)
    \/ \E t \in Threads : CorrectAppend(t)
    \/ \E t \in Threads : FindTest(t)
    \/ \E t \in Threads : FindGet(t)
    \/ \E t \in Threads : FindScan(t)
    \/ \E t \in Threads : FindBoost(t)
    \/ \E t \in Threads : FindExplain(t)

SpecConcurrent == InitConcurrent /\ [][NextConcurrent]_vars

(***************************************************************************)
(* Claims on the concurrent calls.  The calls are compared with the same    *)
(* calls made one after the other on the memory the threads found.          *)
(***************************************************************************)
\* the memories a sequential run of the pending threads' calls, each
\* returning before the next is made, leaves of the memory m
RECURSIVE SequentialOutcomes(_, _)
SequentialOutcomes(m, pending) ==
    IF pending = {} THEN {m}
    ELSE UNION {SequentialOutcomes(Applied(threads[t].call, m, "ok"),
                                   pending \ {t}) : t \in pending}

\* the memories between the calls of such a run, or of a run of some of
\* the calls
RECURSIVE SequentialSnapshots(_, _)
SequentialSnapshots(m, pending) ==
    {m} \cup UNION {SequentialSnapshots(Applied(threads[t].call, m, "ok"),
                                        pending \ {t}) : t \in pending}

\* every thread has called learn_from_document with one fingerprint and
\* all the calls are over
AllLearned ==
    \A t \in Threads :
        /\ threads[t].pc = "done"
        /\ threads[t].call.op = "learn_from_document"
        /\ threads[t].call.fingerprint = threads[1].call.fingerprint

\* C13: when MaxThreads threads have called learn_from_document with the same
\* fingerprint at once and all calls are over, none has raised, and the
\* entries, the vendor index and the saved file are those some sequential
\* order of the calls leaves: the entry's times_seen counts every sighting
C13_ConcurrentLearnsSerialize ==
    AllLearned
    => /\ \A t \in Threads : threads[t].raised = "none"
       /\ \E m \in SequentialOutcomes(at_start, Threads) :
            /\ entries = m.entries
            /\ vendor_index = m.vendor_index
            /\ file = m.file

\* what find_match returns on the memory m with no other call in flight
SequentialFind(m, fingerprint) ==
    LET result == find_match(m, fingerprint) IN
    IF ~result.found_match THEN no_match_result
    ELSE LET entry == GetEntry(m.entries, result.entry_key)
         IN  [found_match |-> TRUE,
              match_score |-> result.match_score,
              entry_key |-> result.entry_key,
              confidence_boost |-> result.confidence_boost,
              field_hints |-> field_hints(entry),
              times_seen |-> entry.times_seen,
              times_confirmed |-> entry.times_confirmed]

\* the threads other than t that have called learn_from_document or
\* record_correction
Writers(t) ==
    {u \in Threads \ {t} :
        threads[u].call.op \in {"learn_from_document", "record_correction"}}

\* C14: a find_match call that ran while other threads called
\* learn_from_document (with its pruning) or record_correction has not
\* raised, and what it returns (match, score, boost, hints, times_seen,
\* times_confirmed) is what find_match returns on the memory before or after
\* each of those calls, that is on the memory a sequential run of some of
\* them leaves
C14_FindMatchConsistentSnapshot ==
    \A t \in Threads :
        (threads[t].pc = "done" /\ threads[t].call.op = "find_match")
        => /\ threads[t].raised = "none"
           /\ \E m \in SequentialSnapshots(at_start, Writers(t)) :
                threads[t].result
                    = SequentialFind(m, threads[t].call.fingerprint)

(***************************************************************************)
(* Further claims on the LearningMemory called directly (Part 3).          *)
(***************************************************************************)
\* every hash listed under a vendor is the key of an entry of that vendor,
\* and every entry with a vendor is listed once under its vendor
IndexConsistent(ents, index) ==
    /\ \A v \in DOMAIN index : \A k \in 1..Len(index[v]) :
          /\ HasEntry(ents, index[v][k])
          /\ Truthy(GetEntry(ents, index[v][k]).fingerprint.vendor_name)
          /\ Lower(GetEntry(ents, index[v][k]).fingerprint.vendor_name.v) = v
    /\ \A i \in 1..Len(ents) :
          Truthy(ents[i].fingerprint.vendor_name)
          => LET v == Lower(ents[i].fingerprint.vendor_name.v)
             IN  /\ v \in DOMAIN index
                 /\ Cardinality({k \in 1..Len(index[v]) :
                                    index[v][k] = KeyOf(ents[i])}) = 1

\* C28: after any sequence of load, learn_from_document, record_correction,
\* add_vendor_rule and pruning, every hash listed under a vendor key is the
\* key of an entry whose vendor name lowercased is that key, and every entry
\* with a non-empty vendor name is listed exactly once under its vendor
C28_VendorIndexConsistent ==
    loaded => IndexConsistent(entries, vendor_index)

\* the memory is at its cap after a learn_from_document call that pruned,
\* and the vendor index lists an entry
C28_Witness ==
    /\ loaded
    /\ last_call.op = "learn_from_document"
    /\ pruned > 0
    /\ Len(entries) = MAX_ENTRIES
    /\ \E v \in DOMAIN vendor_index : vendor_index[v] # <<>>

\* C29: when learn_from_document(fp, ...) has returned, the memory holds an
\* entry under fp's hash and find_match(fp) finds it with score 1.0, also
\* when the call inserted the entry into a memory at its cap and pruned
C29_LearnedIsFound ==
    (loaded /\ last_call.op = "learn_from_document")
    => /\ HasEntry(entries, last_call.fingerprint.fingerprint_hash)
       /\ find_match(Memory, last_call.fingerprint).found_match
       /\ find_match(Memory, last_call.fingerprint).match_score = 100

\* the entries the storage file holds are the entries of the memory
InSync(f, ents) ==
    LET stored == load(f).entries
    IN  /\ ~Unreadable(f)
        /\ Len(stored) = Len(ents)
        /\ \A i \in 1..Len(ents) :
              /\ KeyOf(stored[i]) = KeyOf(ents[i])
              /\ to_dict(stored[i]) = to_dict(ents[i])

\* C30: in a run with no I/O failure (the file is read at construction, and
\* every write succeeds), the entries of the storage file are those of the
\* memory after the construction and after each learn_from_document,
\* record_correction or add_vendor_rule call: a step made on a memory in
\* step with its file, with no failure, leaves them in step
C30_WriteThrough ==
    [][/\ (/\ calls' = calls + 1
           /\ last_call'.op = "get_learning_memory"
           /\ ~Unreadable(file))
          => InSync(file', entries')
       /\ (/\ MemoryChanged
           /\ last_call'.outcome = "ok"
           /\ InSync(file, entries))
          => InSync(file', entries')]_vars

\* a learn_from_document call that pruned has returned with its write done,
\* and the file holds the entries pruning left
C30_Witness ==
    /\ loaded
    /\ last_call.op = "learn_from_document"
    /\ last_call.outcome = "ok"
    /\ pruned > 0
    /\ file = SavedFile(entries)
    /\ Len(entries) = MAX_ENTRIES

(***************************************************************************)
(* Further claims on the consensus extraction (Part 1).                    *)
(***************************************************************************)
\* C21: a detector that throws is treated as having returned no result: an
\* extract_total_amount, extract_date or extract_vendor call ends only when
\* all four detectors have been tried, and with the ConsensusResult built
\* from the results of the detectors that returned one
C21_DetectorFailureAbsorbed ==
    [][(field_name \in FieldNames /\ field_name' = "idle")
       => /\ next_detector = 5
          /\ consensus' = build_consensus(field_name, detector_results)]_vars

(***************************************************************************)
(* Further claims on the engine (Part 2).                                   *)
(***************************************************************************)
\* C22: every result returned by process_image or apply_user_corrections has
\* a confidence in [0, 1] and the confidence level of the band of that
\* confidence (verified from 0.95, high from 0.80, medium from 0.60, low from
\* 0.40, very_low from 0.20, unreliable below)
C22_LevelIsBandOfConfidence ==
    last_result # NoResult
       => /\ last_result.confidence \in 0..1000000
          /\ last_result.confidence_level = from_score(last_result.confidence)

\* what two runs are compared on
Observed(result) ==
    <<result.extracted_fields, result.consensus_details, result.confidence>>

applied_frame ==
    <<consensus_vars, memory_vars, last_call, first_run, run, concurrent_vars>>

Digits == <<"0", "1", "2", "3", "4", "5", "6", "7", "8", "9">>

\* int(c) of one digit
DigitValue(c) == (CHOOSE i \in 1..10 : Digits[i] = c) - 1

\* int(group) of a string of digits
RECURSIVE int(_)
int(group) ==
    IF group = <<>> THEN 0
    ELSE 10 * int(SubSeq(group, 1, Len(group) - 1))
         + DigitValue(group[Len(group)])

\* str(n) of a natural number
RECURSIVE Decimal(_)
Decimal(n) ==
    IF n < 10 THEN <<Digits[n + 1]>>
    ELSE Decimal(n \div 10) \o <<Digits[(n % 10) + 1]>>

\* f"{n:0{width}d}": zeros on the left up to the width, never cut
RECURSIVE ZeroFill(_, _)
ZeroFill(digits, width) ==
    IF Len(digits) >= width THEN digits
    ELSE ZeroFill(<<"0">> \o digits, width)

\* _month_to_num: months.get(name.lower()[:3], 0)
month_to_num(name) ==
    LET key == SubSeq(name, 1, 3)
    IN  IF key \in {<<"J", "a", "n">>, <<"j", "a", "n">>} THEN 1
        ELSE IF key \in {<<"F", "e", "b">>, <<"F", "E", "B">>} THEN 2
        ELSE IF key \in {<<"A", "p", "r">>} THEN 4
        ELSE IF key \in {<<"D", "e", "c">>} THEN 12
        ELSE 0

\* _normalize_date: None, or the date as YYYY-MM-DD
normalize_date(groups, fmt) ==
    IF fmt \notin {"YMD", "DMY", "DMY_short", "D_Mon_Y"} THEN None
    ELSE
    LET day == IF fmt = "YMD" THEN int(groups[3]) ELSE int(groups[1])
        month == IF fmt = "D_Mon_Y" THEN month_to_num(groups[2])
                 ELSE int(groups[2])
        matched == IF fmt = "YMD" THEN int(groups[1]) ELSE int(groups[3])
        year == IF fmt = "DMY_short"
                THEN (IF matched < 50 THEN 2000 + matched ELSE 1900 + matched)
                ELSE matched
    IN  IF ~(/\ 1 <= month /\ month <= 12
             /\ 1 <= day /\ day <= 31
             /\ 1900 <= year /\ year <= 2100)
        THEN None
        ELSE Str(ZeroFill(Decimal(year), 4) \o <<"-">>
                 \o ZeroFill(Decimal(month), 2) \o <<"-">>
                 \o ZeroFill(Decimal(day), 2))

\* groups of one or two digits (\d{1,2}) and of four (\d{4}), two (\d{2})
DayGroups ==
    {<<"0">>, <<"1">>, <<"9">>, <<"0", "0">>, <<"0", "1">>, <<"2", "8">>,
     <<"2", "9">>, <<"3", "0">>, <<"3", "1">>, <<"3", "2">>, <<"9", "9">>}

MonthGroups ==
    {<<"0">>, <<"1">>, <<"2">>, <<"0", "2">>, <<"4">>, <<"0", "9">>,
     <<"1", "1">>, <<"1", "2">>, <<"1", "3">>}

YearGroups ==
    {<<"0", "0", "0", "0">>, <<"1", "8", "9", "9">>, <<"1", "9", "0", "0">>,
     <<"2", "0", "0", "0">>, <<"2", "0", "2", "3">>, <<"2", "0", "2", "4">>,
     <<"2", "1", "0", "0">>, <<"2", "1", "0", "1">>}

ShortYearGroups ==
    {<<"0", "0">>, <<"2", "4">>, <<"4", "9">>, <<"5", "0">>, <<"9", "9">>}

MonthNames ==
    {<<"J", "a", "n">>, <<"F", "e", "b">>, <<"F", "E", "B">>,
     <<"A", "p", "r">>, <<"A", "p", "r", "i", "l">>, <<"D", "e", "c">>}

\* what the patterns of the four date detectors can match
DateMatches ==
    {<<<<y, m, d>>, "YMD">> : y \in YearGroups, m \in MonthGroups,
                              d \in DayGroups}
    \cup {<<<<d, m, y>>, "DMY">> : d \in DayGroups, m \in MonthGroups,
                                   y \in YearGroups}
    \cup {<<<<d, m, y>>, "DMY_short">> : d \in DayGroups, m \in MonthGroups,
                                         y \in ShortYearGroups}
    \cup {<<<<d, m, y>>, "D_Mon_Y">> : d \in DayGroups, m \in MonthNames,
                                       y \in YearGroups}

\* a date detector has matched a pattern: it normalises the groups and
\* returns a DetectorResult of the value unless it is None
DetectDate(groups, fmt) ==
    /\ applied = NotApplied
    /\ applied' = [op |-> "_normalize_date", groups |-> groups, fmt |-> fmt,
                   value |-> normalize_date(groups, fmt)]
    /\ UNCHANGED applied_frame

NextDates ==
    \E match \in DateMatches : DetectDate(match[1], match[2])

SpecDates == InitConsensus /\ [][NextDates]_vars

\* the days of a month of a year of the Gregorian calendar
DaysInMonth(year, month) ==
    IF month \in {4, 6, 9, 11} THEN 30
    ELSE IF month # 2 THEN 31
    ELSE IF (year % 4 = 0 /\ year % 100 # 0) \/ year % 400 = 0 THEN 29
    ELSE 28

\* the string is four digits, a dash, two digits, a dash, two digits
IsIsoForm(s) ==
    /\ Len(s) = 10
    /\ s[5] = "-"
    /\ s[8] = "-"
    /\ \A i \in {1, 2, 3, 4, 6, 7, 9, 10} : \E k \in 1..10 : Digits[k] = s[i]

\* the string of that form names a day that exists, of a year from 1900 to
\* 2100
IsCalendarDate(s) ==
    LET year == int(SubSeq(s, 1, 4))
        month == int(SubSeq(s, 6, 7))
        day == int(SubSeq(s, 9, 10))
    IN  /\ 1900 <= year /\ year <= 2100
        /\ 1 <= month /\ month <= 12
        /\ 1 <= day /\ day <= DaysInMonth(year, month)

\* C24: every date a date detector returns has the form YYYY-MM-DD and is a
\* day that exists in its month and year, the year from 1900 to 2100
C24_DatesAreCalendarDates ==
    (applied.op = "_normalize_date" /\ applied.value # None)
       => /\ IsIsoForm(applied.value.v)
          /\ IsCalendarDate(applied.value.v)

(***************************************************************************)
(* The document type.  A text is seen through the phrases it contains:     *)
(* those of text.upper() for the upper-case phrases, those of the text     *)
(* itself for "Dear", "Sincerely" and "Yours faithfully".                   *)
(***************************************************************************)
\* the phrases FieldExtractor._detect_document_type looks for, by type, in
\* the order it looks for them
TypeKeywords ==
    <<[type |-> "birth_certificate",
       words |-> {"BIRTH", "CERTIFICATE OF BIRTH", "BORN"}],
      [type |-> "national_id",
       words |-> {"NATIONAL ID", "IDENTITY CARD", "ID CARD"}],
      [type |-> "passport", words |-> {"PASSPORT", "TRAVEL DOCUMENT"}],
      [type |-> "driving_license",
       words |-> {"DRIVING LICENCE", "DRIVER'S LICENSE", "DRIVING LICENSE"}],
      [type |-> "invoice", words |-> {"INVOICE", "DUE DATE"}],
      [type |-> "receipt", words |-> {"RECEIPT", "TOTAL", "AMOUNT"}],
      [type |-> "form",
       words |-> {"FORM", "STUDENT", "REGISTRATION", "SEMESTER"}],
      [type |-> "letter", words |-> {"Dear", "Yours faithfully"}]>>

\* EnterpriseDocumentIntelligence._classify_document
classify_document(present) ==
    IF "INVOICE" \in present THEN "invoice"
    ELSE IF present \cap {"RECEIPT", "TOTAL", "AMOUNT"} # {} THEN "receipt"
    ELSE IF present \cap {"FORM", "REGISTRATION", "APPLICATION"} # {}
         THEN "form"
    ELSE IF present \cap {"Dear", "Sincerely", "Yours faithfully"} # {}
         THEN "letter"
    ELSE "unknown"

\* phrases a text of the model may contain
Phrases ==
    {"CERTIFICATE OF BIRTH", "BIRTH", "NATIONAL ID", "PASSPORT",
     "DRIVING LICENCE", "INVOICE", "DUE DATE", "TOTAL", "FORM", "Dear"}

\* the texts: a text that contains "CERTIFICATE OF BIRTH" contains "BIRTH"
Texts ==
    {present \in SUBSET Phrases :
        "CERTIFICATE OF BIRTH" \in present => "BIRTH" \in present}

\* process_image, step 6: the document type of the cleaned text
ClassifyDocument(present) ==
    /\ applied = NotApplied
    /\ applied' = [op |-> "_classify_document", present |-> present,
                   value |-> classify_document(present)]
    /\ UNCHANGED applied_frame

NextClassify ==
    \E present \in Texts : ClassifyDocument(present)

SpecClassify == InitConsensus /\ [][NextClassify]_vars

\* the first type, in the order of the keyword priority, one of whose
\* phrases the text contains
RECURSIVE FirstTypeByPriority(_, _)
FirstTypeByPriority(present, k) ==
    IF k > Len(TypeKeywords) THEN "unknown"
    ELSE IF present \cap TypeKeywords[k].words # {} THEN TypeKeywords[k].type
    ELSE FirstTypeByPriority(present, k + 1)

\* C25: the document type process_image reports is the first of
\* birth_certificate, national_id, passport, driving_license, invoice,
\* receipt, form, letter whose keywords occur in the text, unknown when none
\* occurs
C25_TypeFollowsKeywordPriority ==
    applied.op = "_classify_document"
       => applied.value = FirstTypeByPriority(applied.present, 1)

(***************************************************************************)
(* The consensus category of the confidence breakdown.  _compute_confidence *)
(* hands the scorer the to_dict() of each of the three consensus results    *)
(* (enterprise_intelligence.py 539-553).                                    *)
(***************************************************************************)
\* ConsensusResult.to_dict: the keys of the dict, the agreement as the text
\* "count/total"
consensus_to_dict(result) ==
    [field_name |-> result.field_name,
     value |-> result.final_value,
     consensus_level |-> result.consensus_level,
     agreement |-> [kind |-> "str",
                    of |-> <<result.agreement_count, result.total_detectors>>],
     agreeing_detectors |-> result.agreeing_detectors,
     dissenting_detectors |-> result.dissenting_detectors,
     needs_confirmation |-> result.needs_confirmation,
     confirmation_reason |-> result.confirmation_reason,
     all_candidates |->
         [i \in 1..Len(result.all_candidates) |->
             [value |-> result.all_candidates[i][1],
              votes |-> result.all_candidates[i][2]]]]

\* two values of a field that do not normalize to one
TwoValues(f) ==
    CHOOSE pair \in ValuesOf(f) \X ValuesOf(f) :
        normalize_for_comparison(pair[1]) # normalize_for_comparison(pair[2])

\* the first agree detectors return one value, the next differ another, the
\* others None
DetectorsReturn(f, agree, differ) ==
    [i \in 1..(agree + differ) |->
        [detector_name |-> DetectorNames[i],
         value |-> IF i <= agree THEN TwoValues(f)[1] ELSE TwoValues(f)[2]]]

\* how many detectors return the one value and the other
Votes == {vote \in (0..4) \X (0..4) : vote[1] + vote[2] <= 4}

\* extract_with_consensus: the three results, in the order of the dict
consensus_of(votes) ==
    <<build_consensus("total_amount",
                      DetectorsReturn("total_amount", votes[1][1], votes[1][2])),
      build_consensus("date", DetectorsReturn("date", votes[2][1], votes[2][2])),
      build_consensus("vendor",
                      DetectorsReturn("vendor", votes[3][1], votes[3][2]))>>

\* process_image, steps 6 and 7: the consensus category score of the
\* breakdown
ScoreConsensus(votes) ==
    LET results == consensus_of(votes)
    IN  /\ applied = NotApplied
        /\ applied' =
              [op |-> "_score_consensus", votes |-> votes,
               levels |-> [i \in 1..3 |-> results[i].consensus_level],
               value |-> score_consensus([i \in 1..3 |->
                                            consensus_to_dict(results[i])]).score]
        /\ UNCHANGED applied_frame

NextScore ==
    \E votes \in Votes \X Votes \X Votes : ScoreConsensus(votes)

SpecScore == InitConsensus /\ [][NextScore]_vars

\* the per-field score of a consensus level, in ten-thousandths
LevelScore(level) ==
    IF level = "strong" THEN 10000
    ELSE IF level = "moderate" THEN 7000
    ELSE IF level = "weak" THEN 4000
    ELSE 2000

\* C26: the consensus category score of the breakdown is the average over
\* total_amount, date and vendor of 1.0 for a strong, 0.7 for a moderate, 0.4
\* for a weak consensus and 0.2 for none
C26_ConsensusScoreIsLevelAverage ==
    applied.op = "_score_consensus"
       => applied.value
            = (LevelScore(applied.levels[1]) + LevelScore(applied.levels[2])
               + LevelScore(applied.levels[3])) \div 3

(***************************************************************************)
(* The confirmation planner (confirmation_flow.py 166-378).  A consensus    *)
(* result reaches it as a ConsensusResult or as a dict, the to_dict() that  *)
(* process_image passes; the candidates of a dict are dicts.  A request is  *)
(* its field, current value, candidates, reason and priority.               *)
(***************************************************************************)
\* below this overall confidence (percent) the planner always asks
CONFIDENCE_THRESHOLD_LOW == 50

\* FIELD_PRIORITIES.get(field_name, FieldPriority.MEDIUM)
FIELD_PRIORITIES(fname) ==
    IF fname = "total_amount" THEN "critical"
    ELSE IF fname \in {"date", "vendor", "invoice_number"} THEN "high"
    ELSE "medium"

\* the key of the sort of the requests
PriorityRank(priority) ==
    IF priority = "critical" THEN 0
    ELSE IF priority = "high" THEN 1
    ELSE IF priority = "medium" THEN 2
    ELSE 3

\* hasattr(consensus, 'needs_confirmation'): a ConsensusResult, not a dict
IsConsensusResult(result) == "agreement_count" \in DOMAIN result

\* the candidates of a ConsensusResult without the [:5] of the slice
evaluate_field_uncut(fname, result, current_value) ==
    IF IsConsensusResult(result) /\ result.needs_confirmation
    THEN [field_name |-> fname,
          current_value |-> current_value,
          candidates |->
              [i \in 1..Len(result.all_candidates) |->
                  [value |-> result.all_candidates[i][1],
                   votes |-> result.all_candidates[i][2]]],
          reason |-> IF result.consensus_level = "weak" THEN "low_confidence"
                     ELSE "conflicting_values",
          priority |-> FIELD_PRIORITIES(fname)]
    ELSE IF ~IsConsensusResult(result)
            /\ Get(result, "needs_confirmation", FALSE)
    THEN LET all_candidates == Get(result, "all_candidates", <<>>)
         IN  [field_name |-> fname,
              current_value |-> current_value,
              candidates |->
                  [i \in 1..Len(all_candidates) |->
                      [value |-> Get(all_candidates[i], "value", None),
                       votes |-> Get(all_candidates[i], "votes", 1)]],
              reason |-> Get(result, "reason", "low_confidence"),
              priority |-> FIELD_PRIORITIES(fname)]
    ELSE None

\* _evaluate_field: the request of a field, or None
evaluate_field(fname, result, current_value) ==
    IF IsConsensusResult(result) /\ result.needs_confirmation
    THEN [field_name |-> fname,
          current_value |-> current_value,
          candidates |->
              [i \in 1..Min(5, Len(result.all_candidates)) |->
                  [value |-> result.all_candidates[i][1],
                   votes |-> result.all_candidates[i][2]]],
          reason |-> IF result.consensus_level = "weak" THEN "low_confidence"
                     ELSE "conflicting_values",
          priority |-> FIELD_PRIORITIES(fname)]
    ELSE IF ~IsConsensusResult(result)
            /\ Get(result, "needs_confirmation", FALSE)
    THEN LET all_candidates == Get(result, "all_candidates", <<>>)
         IN  [field_name |-> fname,
              current_value |-> current_value,
              candidates |->
                  [i \in 1..Min(5, Len(all_candidates)) |->
                      [value |-> Get(all_candidates[i], "value", None),
                       votes |-> Get(all_candidates[i], "votes", 1)]],
              reason |-> Get(result, "reason", "low_confidence"),
              priority |-> FIELD_PRIORITIES(fname)]
    ELSE None

\* lines 194-203: the loop over consensus_results.items()
RECURSIVE FieldLoop(_, _, _)
FieldLoop(consensus_results, extracted_fields, requests) ==
    IF consensus_results = <<>> THEN requests
    ELSE LET fname == Head(consensus_results)[1]
             request == evaluate_field(fname, Head(consensus_results)[2],
                                       Get(extracted_fields, fname, None))
         IN  FieldLoop(Tail(consensus_results), extracted_fields,
                       IF request # None THEN Append(requests, request)
                       ELSE requests)

critical_fields == <<"total_amount", "date", "vendor">>

\* lines 207-223: a request for every critical field that is missing and
\* has none
RECURSIVE MissingLoop(_, _, _)
MissingLoop(k, extracted_fields, requests) ==
    IF k > Len(critical_fields) THEN requests
    ELSE LET fname == critical_fields[k]
             missing == Get(extracted_fields, fname, None) = None
             requested == \E i \in 1..Len(requests) :
                              requests[i].field_name = fname
         IN  MissingLoop(k + 1, extracted_fields,
                IF missing /\ ~requested
                THEN Append(requests,
                            [field_name |-> fname,
                             current_value |-> None,
                             candidates |-> <<>>,
                             reason |-> "missing_critical_field",
                             priority |-> FIELD_PRIORITIES(fname)])
                ELSE requests)

\* lines 229-250: a request for every critical field that has a value
RECURSIVE LowConfidenceLoop(_, _, _)
LowConfidenceLoop(k, extracted_fields, requests) ==
    IF k > Len(critical_fields) THEN requests
    ELSE LET fname == critical_fields[k]
             value == Get(extracted_fields, fname, None)
         IN  LowConfidenceLoop(k + 1, extracted_fields,
                IF value # None
                THEN Append(requests,
                            [field_name |-> fname,
                             current_value |-> value,
                             candidates |-> <<[value |-> value, votes |-> 0]>>,
                             reason |-> "low_confidence",
                             priority |-> FIELD_PRIORITIES(fname)])
                ELSE requests)

\* list.sort(key=priority rank): stable
RECURSIVE InsertByPriority(_, _)
InsertByPriority(sorted, request) ==
    IF sorted = <<>> THEN <<request>>
    ELSE IF PriorityRank(Head(sorted).priority) <= PriorityRank(request.priority)
         THEN <<Head(sorted)>> \o InsertByPriority(Tail(sorted), request)
         ELSE <<request>> \o sorted

RECURSIVE SortByPriority(_, _)
SortByPriority(requests, sorted) ==
    IF requests = <<>> THEN sorted
    ELSE SortByPriority(Tail(requests), InsertByPriority(sorted, Head(requests)))

\* evaluate_extraction: the ConfirmationRequest
evaluate_extraction(extracted_fields, consensus_results, overall_confidence) ==
    LET of_fields == FieldLoop(consensus_results, extracted_fields, <<>>)
        with_missing == MissingLoop(1, extracted_fields, of_fields)
        all == IF overall_confidence < CONFIDENCE_THRESHOLD_LOW
                  /\ with_missing = <<>>
               THEN LowConfidenceLoop(1, extracted_fields, with_missing)
               ELSE with_missing
        fields_needing_confirmation == SortByPriority(all, <<>>)
    IN  [needs_confirmation |-> Len(fields_needing_confirmation) > 0,
         fields |-> fields_needing_confirmation]

\* candidates of the consensus dict that carries more than the planner takes
MaxCandidates == 6

\* a consensus dict that carries that many candidates
ManyCandidates(f) ==
    [field_name |-> f, value |-> None, consensus_level |-> "weak",
     needs_confirmation |-> TRUE,
     all_candidates |-> [i \in 1..MaxCandidates |->
                            [value |-> Float(1000 + i), votes |-> 1]]]

\* votes of the detectors the planner is given results of
PlannerVotes == {<<0, 0>>, <<1, 0>>, <<1, 1>>, <<2, 0>>, <<4, 0>>}

\* the consensus results of a field the planner is given: ConsensusResults,
\* their to_dict(), and the dict of many candidates
PlannerConsensus(f) ==
    LET results == {build_consensus(f, DetectorsReturn(f, vote[1], vote[2])) :
                        vote \in PlannerVotes}
    IN  results \cup {consensus_to_dict(result) : result \in results}
        \cup {ManyCandidates(f)}

\* _build_fields_from_consensus, of results in either form, without the
\* fields of the set dropped
FieldsOf(consensus_results, dropped) ==
    [f \in {consensus_results[i][1] : i \in 1..Len(consensus_results)} \ dropped
        |-> LET result ==
                    consensus_results[CHOOSE i \in 1..Len(consensus_results) :
                                          consensus_results[i][1] = f][2]
            IN  IF IsConsensusResult(result) THEN result.final_value
                ELSE result.value]

\* the overall confidences the planner is given, in percent
PlannerConfidences == {40, 90}

\* evaluate_extraction(document_id, document_type, extracted_fields,
\* consensus_results, overall_confidence, raw_text)
EvaluateExtraction(total_amount, date, vendor, dropped, overall_confidence) ==
    LET consensus_results == <<<<"total_amount", total_amount>>,
                               <<"date", date>>, <<"vendor", vendor>>>>
        extracted_fields == FieldsOf(consensus_results, dropped)
    IN  /\ applied = NotApplied
        /\ applied' = [op |-> "evaluate_extraction",
                       extracted_fields |-> extracted_fields,
                       consensus_results |-> consensus_results,
                       overall_confidence |-> overall_confidence,
                       value |-> evaluate_extraction(extracted_fields,
                                                     consensus_results,
                                                     overall_confidence)]
        /\ UNCHANGED applied_frame

NextPlanner ==
    \E total_amount \in PlannerConsensus("total_amount"),
       date \in PlannerConsensus("date"),
       vendor \in PlannerConsensus("vendor"),
       dropped \in SUBSET FieldNames,
       overall_confidence \in PlannerConfidences :
          EvaluateExtraction(total_amount, date, vendor, dropped,
                             overall_confidence)

SpecPlanner == InitConsensus /\ [][NextPlanner]_vars

\* the requests of the plan that are of the field
RequestsOf(requests, f) ==
    {i \in 1..Len(requests) : requests[i].field_name = f}

\* the values of all_candidates of a consensus result in either form
CandidateValues(result) ==
    IF IsConsensusResult(result)
    THEN {result.all_candidates[i][1] :
              i \in 1..Len(result.all_candidates)}
    ELSE {result.all_candidates[i].value :
              i \in 1..Len(result.all_candidates)}

\* C27: the plan holds exactly one request for every field whose consensus
\* result needs confirmation, of at most 5 candidates out of all_candidates;
\* a missing_critical_field request for each of total_amount, date, vendor
\* that is absent from the extracted fields and not requested already;
\* critical requests before high before medium; and needs_confirmation
\* exactly when there is a request
C27_PlanOfConfirmations ==
    applied.op = "evaluate_extraction"
       => LET requests == applied.value.fields
              consensus_results == applied.consensus_results
              extracted_fields == applied.extracted_fields
          IN  /\ \A k \in 1..Len(consensus_results) :
                    consensus_results[k][2].needs_confirmation
                    => /\ Cardinality(RequestsOf(requests,
                                                 consensus_results[k][1])) = 1
                       /\ \A i \in RequestsOf(requests, consensus_results[k][1]) :
                             /\ Len(requests[i].candidates) <= 5
                             /\ \A c \in 1..Len(requests[i].candidates) :
                                   requests[i].candidates[c].value
                                      \in CandidateValues(consensus_results[k][2])
              /\ \A k \in 1..Len(critical_fields) :
                    (/\ Get(extracted_fields, critical_fields[k], None) = None
                     /\ ~consensus_results[k][2].needs_confirmation)
                    => /\ Cardinality(RequestsOf(requests, critical_fields[k])) = 1
                       /\ \A i \in RequestsOf(requests, critical_fields[k]) :
                             requests[i].reason = "missing_critical_field"
              /\ \A i, j \in 1..Len(requests) :
                    i < j => PriorityRank(requests[i].priority)
                               <= PriorityRank(requests[j].priority)
              /\ applied.value.needs_confirmation <=> (requests # <<>>)

\* a plan of a consensus result of more than five candidates, cut to five, and of a
\* missing total_amount, whose request was added last and sorted first
C27_Witness ==
    /\ applied.op = "evaluate_extraction"
    /\ Len(applied.value.fields) >= 2
    /\ applied.value.fields[1].reason = "missing_critical_field"
    /\ applied.value.needs_confirmation
    /\ \E k \in 2..3 :
          /\ Len(applied.consensus_results[k][2].all_candidates) > 5
          /\ \E i \in 1..Len(applied.value.fields) :
                /\ applied.value.fields[i].field_name
                     = applied.consensus_results[k][1]
                /\ Len(applied.value.fields[i].candidates) = 5

=============================================================================
